---- MODULE Spec2Model ----
(***************************************************************************)
(* Model of the MatrAI obstetric triage engine (backend/app/triage.py):    *)
(* the PMSMA rule table, the GREEN fallback record and evaluate_risk, run  *)
(* as a loop of rule tests by each caller.                                 *)
(*                                                                         *)
(* Python values are pairs <<type name, repr>>, so that values of          *)
(* different types can be told apart and compared as `==` compares them.   *)
(* Dicts are functions whose domain is the set of keys present.            *)
(* The action and reason texts are kept by their first sentence.           *)
(***************************************************************************)
EXTENDS Integers, Sequences, FiniteSets, TLC

\* ------------------------------------------------------------------------
\* Bounds
\* ------------------------------------------------------------------------

\* Largest number of keys in a sparse (possibly malformed) symptom record.
MaxKeys == 2

\* Number of callers that hold a frame of evaluate_risk.
NumCallers == 2

Callers == 1..NumCallers

\* ------------------------------------------------------------------------
\* Python values
\* ------------------------------------------------------------------------

PyTrue == <<"bool", "True">>
PyFalse == <<"bool", "False">>
PyNone == <<"NoneType", "None">>
PyInt(repr) == <<"int", repr>>
PyStr(s) == <<"str", s>>

\* bool is a subclass of int: True and False take part in numeric comparison.
IsNumeric(v) == v[1] \in {"bool", "int", "float"}

NumVal(v) ==
    CASE v[2] \in {"True", "1", "1.0"} -> 1
      [] v[2] \in {"False", "0", "0.0"} -> 0
      [] OTHER -> 99

\* str(a).lower() == str(b).lower(): a comparison by text, which `==` is not.
PyEqByText(a, b) ==
    LET text(v) == IF v[2] = "True" THEN "true"
                   ELSE IF v[2] = "False" THEN "false" ELSE v[2]
    IN text(a) = text(b)

\* a == b for the value types a symptom record can hold.
PyEq(a, b) ==
    IF IsNumeric(a) /\ IsNumeric(b) THEN NumVal(a) = NumVal(b) ELSE a = b

\* A dict with no item.
EmptyDict == [k \in {} |-> PyNone]

\* d.get(key, True): an absent key counts as reported.
DictGetDefaultTrue(d, key) == IF key \in DOMAIN d THEN d[key] ELSE PyTrue

\* d.get(key): the value, or None when the key is absent.
DictGet(d, key) == IF key \in DOMAIN d THEN d[key] ELSE PyNone

\* The isinstance check left out.
IsDictUnchecked(arg) == TRUE

\* isinstance(arg, dict)
IsDict(arg) == arg.kind = "dict"

\* ------------------------------------------------------------------------
\* The rule table and the GREEN fallback, as the module defines them
\* ------------------------------------------------------------------------

TriageRule(level, key, trigger, action, reason) ==
    [risk_level |-> level, symptom_key |-> key, trigger_value |-> trigger,
     mandatory_action |-> action, clinical_reason |-> reason]

\* The table with the headache rule keyed by the name the tool schema uses.
RulesKeyedByToolName ==
    << TriageRule("RED", "bleeding", PyStr("heavy"),
           "Go to the nearest government hospital or PHC immediately.",
           "Heavy antepartum or postpartum haemorrhage is a leading direct cause of maternal mortality in India (SRS 2020)."),
       TriageRule("RED", "convulsions", PyTrue,
           "Call 108 immediately.",
           "Convulsions in pregnancy indicate eclampsia until proven otherwise"),
       TriageRule("RED", "headache", PyTrue,
           "Seek emergency care at a government hospital immediately.",
           "Severe headache in pregnancy is a cardinal warning sign of pre-eclampsia / imminent eclampsia per PMSMA and WHO ANC guidelines (2016)."),
       TriageRule("RED", "fetal_movement", PyStr("decreased"),
           "Go to the nearest health facility today for a fetal well-being check (Non-Stress Test or kick-count assessment).",
           "Decreased or absent fetal movements (fewer than 10 movements in 2 hours) is a recognised danger sign of foetal distress / intrauterine foetal death"),
       TriageRule("YELLOW", "fever", PyTrue,
           "Visit the nearest Primary Health Centre (PHC) or Sub-Centre within 24 hours.",
           "Fever during pregnancy raises concern for malaria, urinary tract infection, or chorioamnionitis"),
       TriageRule("YELLOW", "swelling_feet", PyTrue,
           "Visit your ASHA worker or ANM today for blood pressure measurement.",
           "Oedema of the feet and ankles, particularly when sudden or severe, is a high-risk indicator for gestational hypertension / pre-eclampsia under PMSMA screening."),
       TriageRule("YELLOW", "abdominal_pain", PyStr("mild"),
           "Contact your ANM or ASHA worker within 24 hours.",
           "Mild abdominal pain can signal preterm uterine contractions, urinary tract infection, or early placental abruption.") >>

InitRules ==
    << TriageRule("RED", "bleeding", PyStr("heavy"),
           "Go to the nearest government hospital or PHC immediately.",
           "Heavy antepartum or postpartum haemorrhage is a leading direct cause of maternal mortality in India (SRS 2020)."),
       TriageRule("RED", "convulsions", PyTrue,
           "Call 108 immediately.",
           "Convulsions in pregnancy indicate eclampsia until proven otherwise"),
       TriageRule("RED", "severe_headache", PyTrue,
           "Seek emergency care at a government hospital immediately.",
           "Severe headache in pregnancy is a cardinal warning sign of pre-eclampsia / imminent eclampsia per PMSMA and WHO ANC guidelines (2016)."),
       TriageRule("RED", "fetal_movement", PyStr("decreased"),
           "Go to the nearest health facility today for a fetal well-being check (Non-Stress Test or kick-count assessment).",
           "Decreased or absent fetal movements (fewer than 10 movements in 2 hours) is a recognised danger sign of foetal distress / intrauterine foetal death"),
       TriageRule("YELLOW", "fever", PyTrue,
           "Visit the nearest Primary Health Centre (PHC) or Sub-Centre within 24 hours.",
           "Fever during pregnancy raises concern for malaria, urinary tract infection, or chorioamnionitis"),
       TriageRule("YELLOW", "swelling_feet", PyTrue,
           "Visit your ASHA worker or ANM today for blood pressure measurement.",
           "Oedema of the feet and ankles, particularly when sudden or severe, is a high-risk indicator for gestational hypertension / pre-eclampsia under PMSMA screening."),
       TriageRule("YELLOW", "abdominal_pain", PyStr("mild"),
           "Contact your ANM or ASHA worker within 24 hours.",
           "Mild abdominal pain can signal preterm uterine contractions, urinary tract infection, or early placental abruption.") >>

InitGreenResult ==
    [risk_level |-> "GREEN",
     mandatory_action |-> "Continue routine Antenatal Care (ANC).",
     clinical_reason |-> "No danger signs or high-risk indicators detected based on reported symptoms."]

\* ------------------------------------------------------------------------
\* Inputs
\* ------------------------------------------------------------------------

\* The seven symptom keys the docstring of evaluate_risk recognises.
RecognisedKeys ==
    {"bleeding", "convulsions", "severe_headache", "fetal_movement",
     "fever", "swelling_feet", "abdominal_pain"}

\* Keys a caller may pass that the engine does not know: the external name
\* of the headache symptom and the gestational age.
UnknownKeys == {"headache", "weeks_pregnant"}

Keys == RecognisedKeys \cup UnknownKeys

BoolValues == {PyTrue, PyFalse}
BleedingValues == {PyStr("none"), PyStr("light"), PyStr("heavy")}
FetalValues == {PyStr("normal"), PyStr("decreased"), PyStr("absent")}
PainValues == {PyStr("none"), PyStr("mild"), PyStr("severe")}

\* Values of any type that may turn up under any key.
Values ==
    BoolValues \cup {PyNone, PyInt("1"), PyStr("true")}
    \cup {PyStr("heavy"), PyStr("light"), PyStr("decreased"), PyStr("absent"),
          PyStr("mild"), PyStr("severe")}

\* Records that hold every recognised key with a value of its documented type.
WellTypedRecords ==
    { [k \in RecognisedKeys |->
          CASE k = "bleeding" -> b
            [] k = "convulsions" -> c
            [] k = "severe_headache" -> h
            [] k = "fetal_movement" -> m
            [] k = "fever" -> f
            [] k = "swelling_feet" -> s
            [] OTHER -> a] :
        b \in BleedingValues, c \in BoolValues, h \in BoolValues,
        m \in FetalValues, f \in BoolValues, s \in BoolValues,
        a \in PainValues }

\* Records with at most n keys, any key with any value.
SparseRecords(n) ==
    UNION { [K -> Values] : K \in { S \in SUBSET Keys : Cardinality(S) <= n } }

Records == WellTypedRecords \cup SparseRecords(MaxKeys)

DictArg(rec) == [kind |-> "dict", items |-> rec]

\* Arguments that are not a dict: a string, a list, None.
NonDictArgs ==
    { [kind |-> t, items |-> EmptyDict] : t \in {"str", "list", "NoneType"} }

Args == { DictArg(rec) : rec \in Records } \cup NonDictArgs

\* ------------------------------------------------------------------------
\* State
\* ------------------------------------------------------------------------

VARIABLES
    _RULES,          \* module global: the rule table
    _GREEN_RESULT,   \* module global: the GREEN fallback dict
    pc,              \* per caller: position in evaluate_risk
    symptoms,        \* per caller: the argument of the call
    idx,             \* per caller: index of the rule the for loop is at
    matched_yellow,  \* per caller: index of the captured YELLOW rule, 0 = None
    result,          \* per caller: the object the call returned
    error,           \* per caller: the exception the call raised
    returned,        \* per caller: contents of the verdict when it was returned
    tested,          \* per caller: how often each rule was tested in the call
    doctor_phone_number,  \* settings.doctor_phone_number
    request,         \* /vapi/tool: the message of the request being handled
    hpc,             \* /vapi/tool: position of the handler
    tool_i,          \* /vapi/tool: index of the tool the for loop is at
    weeks,           \* _run_triage: the local weeks
    results,         \* /vapi/tool: the list results
    response,        \* /vapi/tool: what the handler returned
    tasks,           \* the tasks created with asyncio.create_task, in order
    supabase_configured,  \* settings: SUPABASE_URL and SUPABASE_KEY are both set
    users,           \* table users: per phone, the row with its consent_given
    calls,           \* table calls: the rows, in order of insertion
    emergency_logs,  \* table emergency_logs: the rows, in order of insertion
    last,            \* the database operation run last, and how it ended
    vapi_webhook_secret,  \* settings.vapi_webhook_secret
    hook_request,    \* /vapi/webhook: the request being handled
    hook_pc,         \* /vapi/webhook: position of the handler
    hook_i,          \* _handle_tool_calls: index of the tool the for loop is at
    hook_results,    \* _handle_tool_calls: the list results
    hook_response    \* /vapi/webhook: what the handler returned

\* The variables of the triage module and of its callers.
enginevars == <<_RULES, _GREEN_RESULT, pc, symptoms, idx, matched_yellow, result,
                error, returned, tested>>

\* The variables of the /vapi/tool endpoint.
toolvars == <<doctor_phone_number, request, hpc, tool_i, weeks, results,
              response, tasks>>

\* The variables of the database layer (db/supabase_client.py).
dbvars == <<supabase_configured, users, calls, emergency_logs, last>>

\* The variables of the /vapi/webhook endpoint.
hookvars == <<vapi_webhook_secret, hook_request, hook_pc, hook_i, hook_results,
              hook_response>>

backendvars == <<dbvars, hookvars>>

vars == <<enginevars, toolvars, backendvars>>

NoResult == [ref |-> "none", val |-> EmptyDict]
NoRequest == [type |-> "none"]
NoResponse == [status |-> 0]

\* A doctor's number as DOCTOR_PHONE_NUMBER holds it when configured.
DoctorNumber == "+911234567890"

\* No request is being handled and no task exists.
ToolIdle ==
    /\ request = NoRequest
    /\ hpc = "idle"
    /\ tool_i = 0
    /\ weeks = "0"
    /\ results = <<>>
    /\ response = NoResponse
    /\ tasks = <<>>

\* The phone numbers of the callers.
Phones == {"+919800000001", "+919800000002"}

\* No row for a phone in users, and the row with consent_given = c.
NoUser == [present |-> FALSE, consent_given |-> FALSE]
UserRow(c) == [present |-> TRUE, consent_given |-> c]

NoOperation ==
    [op |-> "none", phone |-> "", arg |-> "", outcome |-> "none", call_id |-> 0,
     emergency |-> "not_attempted"]
NoHookRequest == [type |-> "none"]

\* The database is configured and empty, no operation has run, and the
\* webhook, without a secret, has received nothing.
BackendIdle ==
    /\ supabase_configured = TRUE
    /\ users = [ph \in Phones |-> NoUser]
    /\ calls = <<>>
    /\ emergency_logs = <<>>
    /\ last = NoOperation
    /\ vapi_webhook_secret = ""
    /\ hook_request = NoHookRequest
    /\ hook_pc = "idle"
    /\ hook_i = 0
    /\ hook_results = <<>>
    /\ hook_response = NoResponse

NoArg == [kind |-> "none", items |-> EmptyDict]

\* A new dict owned by the caller.
FreshDict(d) == [ref |-> "own", val |-> d]

\* The contents of the object a reference designates.
Deref(r, green) == IF r.ref = "_GREEN_RESULT" THEN green ELSE r.val

Init ==
    /\ _RULES = InitRules
    /\ _GREEN_RESULT = InitGreenResult
    /\ pc = [p \in Callers |-> "idle"]
    /\ symptoms = [p \in Callers |-> NoArg]
    /\ idx = [p \in Callers |-> 0]
    /\ matched_yellow = [p \in Callers |-> 0]
    /\ result = [p \in Callers |-> NoResult]
    /\ error = [p \in Callers |-> "None"]
    /\ returned = [p \in Callers |-> EmptyDict]
    /\ tested = [p \in Callers |-> [i \in 1..Len(InitRules) |-> 0]]
    /\ doctor_phone_number = DoctorNumber
    /\ ToolIdle
    /\ BackendIdle

\* ------------------------------------------------------------------------
\* evaluate_risk
\* ------------------------------------------------------------------------

\* The result dict built without its clinical_reason.
_build_result_no_reason(rule) ==
    FreshDict([risk_level |-> rule.risk_level,
               mandatory_action |-> rule.mandatory_action])

\* _build_result(rule): a new dict of three fields copied from the rule.
_build_result(rule) ==
    FreshDict([risk_level |-> rule.risk_level,
               mandatory_action |-> rule.mandatory_action,
               clinical_reason |-> rule.clinical_reason])

\* return _GREEN_RESULT: the fallback object itself, not a copy.
ShareGreenResult(green) == [ref |-> "_GREEN_RESULT", val |-> EmptyDict]

\* dict(_GREEN_RESULT): a shallow copy of the fallback.
CopyGreenResult(green) == FreshDict(green)

\* The object has a get method (a str, a list and None have none).
HasGet(arg) == arg.kind = "dict"

\* str(symptoms.get(rule.symptom_key)).lower() == str(rule.trigger_value).lower()
RuleMatchesByText(rule, rec) ==
    PyEqByText(DictGet(rec, rule.symptom_key), rule.trigger_value)

\* symptoms.get(rule.symptom_key) == rule.trigger_value
RuleMatches(rule, rec) == PyEq(DictGet(rec, rule.symptom_key), rule.trigger_value)

\* A match of any level ends the scan: the first match wins.
IsRedAnyLevel(rule) == TRUE

\* rule.risk_level == "Red": the level misspelt.
IsRedMisspelt(rule) == rule.risk_level = "Red"

\* rule.risk_level == "RED"
IsRed(rule) == rule.risk_level = "RED"

\* rule.risk_level == "YELLOW": every YELLOW match replaces the candidate.
CapturesYellowAlways(rule, my) == rule.risk_level = "YELLOW"

\* rule.risk_level == "YELLOW" and matched_yellow is not None: the test inverted.
CapturesYellowInverted(rule, my) == rule.risk_level = "YELLOW" /\ my # 0

\* rule.risk_level == "YELLOW" and matched_yellow is None
CapturesYellow(rule, my) == rule.risk_level = "YELLOW" /\ my = 0

\* return obj
Return(p, obj) ==
    /\ pc' = [pc EXCEPT ![p] = "returned"]
    /\ result' = [result EXCEPT ![p] = obj]
    /\ returned' = [returned EXCEPT ![p] = Deref(obj, _GREEN_RESULT)]
    /\ UNCHANGED error

\* raise exc
Raise(p, exc) ==
    /\ pc' = [pc EXCEPT ![p] = "raised"]
    /\ error' = [error EXCEPT ![p] = exc]
    /\ UNCHANGED <<result, returned>>

\* Entry of evaluate_risk(arg): the isinstance check and the two locals.
evaluate_risk(p, arg) ==
    /\ pc[p] = "idle"
    /\ symptoms' = [symptoms EXCEPT ![p] = arg]
    /\ tested' = [tested EXCEPT ![p] = [i \in 1..Len(_RULES) |-> 0]]
    /\ IF ~IsDict(arg)
       THEN /\ Raise(p, "TypeError")
            /\ UNCHANGED <<idx, matched_yellow>>
       ELSE /\ pc' = [pc EXCEPT ![p] = "loop"]
            /\ idx' = [idx EXCEPT ![p] = 1]
            /\ matched_yellow' = [matched_yellow EXCEPT ![p] = 0]
            /\ UNCHANGED <<result, error, returned>>
    /\ UNCHANGED <<_RULES, _GREEN_RESULT>>

\* One iteration of the loop with matched_yellow a variable of the module:
\* a capture by one call is seen by every call.
LoopBodyGlobalYellow(p) ==
    /\ pc[p] = "loop"
    /\ idx[p] <= Len(_RULES)
    /\ LET rule == _RULES[idx[p]] IN
       IF ~HasGet(symptoms[p])
       THEN /\ Raise(p, "AttributeError")
            /\ UNCHANGED <<idx, matched_yellow, tested>>
       ELSE /\ tested' = [tested EXCEPT ![p][idx[p]] = @ + 1]
            /\ IF RuleMatches(rule, symptoms[p].items)
               THEN IF IsRed(rule)
                    THEN /\ Return(p, _build_result(rule))
                         /\ UNCHANGED <<idx, matched_yellow>>
                    ELSE /\ matched_yellow' =
                              [q \in Callers |->
                                  IF CapturesYellow(rule, matched_yellow[p])
                                  THEN idx[p] ELSE matched_yellow[q]]
                         /\ idx' = [idx EXCEPT ![p] = @ + 1]
                         /\ UNCHANGED <<pc, result, error, returned>>
               ELSE /\ idx' = [idx EXCEPT ![p] = @ + 1]
                    /\ UNCHANGED <<pc, matched_yellow, result, error, returned>>
    /\ UNCHANGED <<_RULES, _GREEN_RESULT, symptoms>>

\* One iteration of `for rule in reversed(_RULES)`.
LoopBodyReversed(p) ==
    /\ pc[p] = "loop"
    /\ idx[p] <= Len(_RULES)
    /\ LET at == Len(_RULES) + 1 - idx[p]
           rule == _RULES[at] IN
       IF ~HasGet(symptoms[p])
       THEN /\ Raise(p, "AttributeError")
            /\ UNCHANGED <<idx, matched_yellow, tested>>
       ELSE /\ tested' = [tested EXCEPT ![p][at] = @ + 1]
            /\ IF RuleMatches(rule, symptoms[p].items)
               THEN IF IsRed(rule)
                    THEN /\ Return(p, _build_result(rule))
                         /\ UNCHANGED <<idx, matched_yellow>>
                    ELSE /\ matched_yellow' =
                              [matched_yellow EXCEPT ![p] =
                                  IF CapturesYellow(rule, @) THEN at ELSE @]
                         /\ idx' = [idx EXCEPT ![p] = @ + 1]
                         /\ UNCHANGED <<pc, result, error, returned>>
               ELSE /\ idx' = [idx EXCEPT ![p] = @ + 1]
                    /\ UNCHANGED <<pc, matched_yellow, result, error, returned>>
    /\ UNCHANGED <<_RULES, _GREEN_RESULT, symptoms>>

\* One iteration of `for rule in _RULES`.
LoopBody(p) ==
    /\ pc[p] = "loop"
    /\ idx[p] <= Len(_RULES)
    /\ LET rule == _RULES[idx[p]] IN
       IF ~HasGet(symptoms[p])
       THEN \* symptoms.get on an object that has no such attribute
            /\ Raise(p, "AttributeError")
            /\ UNCHANGED <<idx, matched_yellow, tested>>
       ELSE /\ tested' = [tested EXCEPT ![p][idx[p]] = @ + 1]
            /\ IF RuleMatches(rule, symptoms[p].items)
               THEN IF IsRed(rule)
                    THEN /\ Return(p, _build_result(rule))
                         /\ UNCHANGED <<idx, matched_yellow>>
                    ELSE /\ matched_yellow' =
                              [matched_yellow EXCEPT ![p] =
                                  IF CapturesYellow(rule, @) THEN idx[p] ELSE @]
                         /\ idx' = [idx EXCEPT ![p] = @ + 1]
                         /\ UNCHANGED <<pc, result, error, returned>>
               ELSE /\ idx' = [idx EXCEPT ![p] = @ + 1]
                    /\ UNCHANGED <<pc, matched_yellow, result, error, returned>>
    /\ UNCHANGED <<_RULES, _GREEN_RESULT, symptoms>>

\* The statements after the loop.
AfterLoop(p) ==
    /\ pc[p] = "loop"
    /\ idx[p] > Len(_RULES)
    /\ IF matched_yellow[p] # 0
       THEN Return(p, _build_result(_RULES[matched_yellow[p]]))
       ELSE Return(p, CopyGreenResult(_GREEN_RESULT))
    /\ UNCHANGED <<_RULES, _GREEN_RESULT, symptoms, idx, matched_yellow, tested>>

\* The caller is done with the verdict or the exception; the frame is gone.
Discard(p) ==
    /\ pc[p] \in {"returned", "raised"}
    /\ pc' = [pc EXCEPT ![p] = "idle"]
    /\ symptoms' = [symptoms EXCEPT ![p] = NoArg]
    /\ idx' = [idx EXCEPT ![p] = 0]
    /\ matched_yellow' = [matched_yellow EXCEPT ![p] = 0]
    /\ result' = [result EXCEPT ![p] = NoResult]
    /\ error' = [error EXCEPT ![p] = "None"]
    /\ returned' = [returned EXCEPT ![p] = EmptyDict]
    /\ tested' = [tested EXCEPT ![p] = [i \in 1..Len(_RULES) |-> 0]]
    /\ UNCHANGED <<_RULES, _GREEN_RESULT>>

\* The caller assigns to a field of the verdict it holds: verdict[key] = text.
\* The assignment goes to the object the reference designates.
ModifyVerdict(p, key, text) ==
    /\ pc[p] = "returned"
    /\ IF result[p].ref = "_GREEN_RESULT"
       THEN /\ _GREEN_RESULT' =
                 [k \in DOMAIN _GREEN_RESULT \cup {key} |->
                     IF k = key THEN text ELSE _GREEN_RESULT[k]]
            /\ UNCHANGED result
       ELSE /\ result' = [result EXCEPT ![p].val =
                 [k \in DOMAIN @ \cup {key} |-> IF k = key THEN text ELSE @[k]]]
            /\ UNCHANGED _GREEN_RESULT
    /\ UNCHANGED <<_RULES, pc, symptoms, idx, matched_yellow, error, returned,
                   tested>>

\* ------------------------------------------------------------------------
\* Specification: one caller, calls one after the other, any argument
\* ------------------------------------------------------------------------

Call ==
    /\ pc[1] = "idle"
    /\ \E arg \in Args : evaluate_risk(1, arg)
    /\ UNCHANGED <<toolvars, backendvars>>
Scan == LoopBody(1) /\ UNCHANGED <<toolvars, backendvars>>
Finish == AfterLoop(1) /\ UNCHANGED <<toolvars, backendvars>>
Consume == Discard(1) /\ UNCHANGED <<toolvars, backendvars>>

Next == Call \/ Scan \/ Finish \/ Consume

Spec == Init /\ [][Next]_vars

\* ------------------------------------------------------------------------
\* Specification: two calls side by side.  Caller 1 calls once and keeps its
\* verdict; caller 2 then calls again and again, with records related to
\* the first one or not; both may assign to the verdicts they hold.
\* ------------------------------------------------------------------------

\* The record with key set to value (added when absent).
SetKey(rec, key, value) ==
    [k \in DOMAIN rec \cup {key} |-> IF k = key THEN value ELSE rec[k]]

\* The record without key.
RemoveKey(rec, key) == [k \in DOMAIN rec \ {key} |-> rec[k]]

\* Records of the first call: the well-typed ones, and those of at most one
\* key with any value.
PairRecords == WellTypedRecords \cup SparseRecords(1)

\* Records of a later call that are related to rec: rec itself, rec with one
\* key set to None, rec with an unknown key removed, added or changed.
Variants(rec) ==
    {rec}
    \cup { SetKey(rec, k, PyNone) : k \in Keys }
    \cup { RemoveKey(rec, u) : u \in UnknownKeys }
    \cup { SetKey(rec, u, v) : u \in UnknownKeys,
                                v \in {PyTrue, PyInt("1"), PyStr("heavy")} }

\* Records of a later call that are unrelated: one for each way out of
\* evaluate_risk.
UnrelatedRecords ==
    { EmptyDict,
      [k \in {"fever"} |-> PyTrue],
      [k \in {"bleeding"} |-> PyStr("heavy")] }

PairFirstCall ==
    /\ pc[1] = "idle"
    /\ pc[2] = "idle"
    /\ \E rec \in PairRecords : evaluate_risk(1, DictArg(rec))
    /\ UNCHANGED <<toolvars, backendvars>>

PairLaterCall ==
    /\ pc[1] = "returned"
    /\ pc[2] = "idle"
    /\ \E rec \in Variants(symptoms[1].items) \cup UnrelatedRecords :
           evaluate_risk(2, DictArg(rec))
    /\ UNCHANGED <<toolvars, backendvars>>

PairScan == (\E p \in {1, 2} : LoopBody(p)) /\ UNCHANGED <<toolvars, backendvars>>
PairFinish == (\E p \in {1, 2} : AfterLoop(p)) /\ UNCHANGED <<toolvars, backendvars>>
PairConsume == Discard(2) /\ UNCHANGED <<toolvars, backendvars>>

\* One assignment to a verdict that is still as it was returned.
PairModify ==
    \E p \in {1, 2}, key \in {"risk_level", "mandatory_action", "clinical_reason"} :
        /\ pc[p] = "returned"
        /\ Deref(result[p], _GREEN_RESULT) = returned[p]
        /\ ModifyVerdict(p, key, "TAMPERED")
        /\ UNCHANGED <<toolvars, backendvars>>

PairNext ==
    \/ PairFirstCall
    \/ PairLaterCall
    \/ PairScan
    \/ PairFinish
    \/ PairConsume
    \/ PairModify

SpecPair == Init /\ [][PairNext]_vars

\* ------------------------------------------------------------------------
\* Vocabulary of the properties
\* ------------------------------------------------------------------------

ResultKeys == {"risk_level", "mandatory_action", "clinical_reason"}
RiskLevels == {"RED", "YELLOW", "GREEN"}

\* A field of a dict of texts, "" when the dict has no such key.
Field(d, k) == IF k \in DOMAIN d THEN d[k] ELSE ""

\* The (key, trigger value) pairs the declared table gives a level.
DeclaredTriggers(level) ==
    { <<InitRules[i].symptom_key, InitRules[i].trigger_value>> :
        i \in { j \in 1..Len(InitRules) : InitRules[j].risk_level = level } }

\* The record holds, under the pair's key, a value equal (==) to its value.
Holds(rec, pair) == pair[1] \in DOMAIN rec /\ PyEq(rec[pair[1]], pair[2])

HasTrigger(rec, level) == \E t \in DeclaredTriggers(level) : Holds(rec, t)

\* The values the docstring of evaluate_risk documents for a key.
DocumentedValues(key) ==
    CASE key = "bleeding" -> BleedingValues
      [] key = "fetal_movement" -> FetalValues
      [] key = "abdominal_pain" -> PainValues
      [] key \in RecognisedKeys -> BoolValues
      [] OTHER -> {}

\* The call of caller p got a dict and has returned.
ReturnedFor(p) == pc[p] = "returned" /\ symptoms[p].kind = "dict"

\* The verdict a rule stands for.
VerdictOf(rule) ==
    [risk_level |-> rule.risk_level, mandatory_action |-> rule.mandatory_action,
     clinical_reason |-> rule.clinical_reason]

\* ------------------------------------------------------------------------
\* C1. A record that holds at least one RED trigger gets a RED verdict,
\* whatever else it holds: the call does not raise, does not run past the
\* end of the loop, and the verdict it returns has risk_level RED.
\* ------------------------------------------------------------------------
RedTriggerGivesRed ==
    \A p \in Callers :
        (symptoms[p].kind = "dict" /\ HasTrigger(symptoms[p].items, "RED")) =>
            /\ pc[p] # "raised"
            /\ pc[p] = "loop" => idx[p] <= Len(InitRules)
            /\ pc[p] = "returned" => Field(returned[p], "risk_level") = "RED"

\* A RED verdict for a record that also holds a YELLOW trigger and a value
\* of no documented type.
RedWithYellowReached ==
    /\ ReturnedFor(1)
    /\ HasTrigger(symptoms[1].items, "RED")
    /\ HasTrigger(symptoms[1].items, "YELLOW")
    /\ \E k \in DOMAIN symptoms[1].items :
           symptoms[1].items[k] \notin DocumentedValues(k)
    /\ Field(returned[1], "risk_level") = "RED"

\* ------------------------------------------------------------------------
\* C2. Every record with fetal_movement = 'absent' gets a RED verdict.
\* ------------------------------------------------------------------------
AbsentFetalMovementIsRed ==
    \A p \in Callers :
        ( /\ ReturnedFor(p)
          /\ "fetal_movement" \in DOMAIN symptoms[p].items
          /\ symptoms[p].items["fetal_movement"] = PyStr("absent") ) =>
            Field(returned[p], "risk_level") = "RED"

\* ------------------------------------------------------------------------
\* C3. A record that holds at least one YELLOW trigger and no RED trigger
\* gets a YELLOW verdict.
\* ------------------------------------------------------------------------
YellowTriggerGivesYellow ==
    \A p \in Callers :
        ( /\ symptoms[p].kind = "dict"
          /\ HasTrigger(symptoms[p].items, "YELLOW")
          /\ ~HasTrigger(symptoms[p].items, "RED") ) =>
            /\ pc[p] # "raised"
            /\ pc[p] = "returned" => Field(returned[p], "risk_level") = "YELLOW"

\* A YELLOW verdict for a record with two YELLOW triggers and no RED one.
YellowReached ==
    /\ ReturnedFor(1)
    /\ Cardinality({ t \in DeclaredTriggers("YELLOW") :
                        Holds(symptoms[1].items, t) }) >= 2
    /\ ~HasTrigger(symptoms[1].items, "RED")
    /\ Field(returned[1], "risk_level") = "YELLOW"

\* ------------------------------------------------------------------------
\* C4. A record in which no key holds a trigger value of any rule gets
\* exactly the canonical GREEN verdict, the fallback's action and reason.
\* ------------------------------------------------------------------------
NoTriggerGivesGreen ==
    \A p \in Callers :
        ( /\ symptoms[p].kind = "dict"
          /\ ~HasTrigger(symptoms[p].items, "RED")
          /\ ~HasTrigger(symptoms[p].items, "YELLOW") ) =>
            /\ pc[p] # "raised"
            /\ pc[p] = "returned" =>
                  /\ returned[p] = InitGreenResult
                  /\ \A i \in 1..Len(InitRules) :
                         returned[p] # VerdictOf(InitRules[i])

\* The GREEN verdict for bleeding = 'light'.
GreenForLightBleedingReached ==
    /\ ReturnedFor(1)
    /\ "bleeding" \in DOMAIN symptoms[1].items
    /\ symptoms[1].items["bleeding"] = PyStr("light")
    /\ ~HasTrigger(symptoms[1].items, "YELLOW")
    /\ returned[1] = InitGreenResult

\* ------------------------------------------------------------------------
\* C5. A call whose argument is not a dict raises TypeError and returns no
\* verdict, and no call ever raises anything else: a call with a dict
\* raises nothing.
\* ------------------------------------------------------------------------
NonDictRaisesTypeError ==
    \A p \in Callers :
        /\ symptoms[p].kind \in {"str", "list", "NoneType"} =>
              /\ pc[p] = "raised"
              /\ error[p] = "TypeError"
              /\ result[p] = NoResult
        /\ error[p] \in {"None", "TypeError"}
        /\ pc[p] = "raised" <=> error[p] # "None"
        /\ symptoms[p].kind = "dict" => pc[p] # "raised"

\* A call with a string has raised.
TypeErrorReached ==
    /\ pc[1] = "raised"
    /\ symptoms[1].kind = "str"
    /\ error[1] = "TypeError"

\* ------------------------------------------------------------------------
\* C6. For every dict the call raises nothing, tests each rule at most
\* once and returns a complete verdict; a value outside the documented
\* values of its key gives no risk signal: a verdict above GREEN rests on
\* a rule of that level whose key holds its trigger as a documented value.
\* ------------------------------------------------------------------------
MalformedValuesGiveNoSignal ==
    \A p \in Callers :
        symptoms[p].kind = "dict" =>
            /\ pc[p] # "raised"
            /\ \A i \in 1..Len(InitRules) : tested[p][i] <= 1
            /\ pc[p] = "returned" =>
                  /\ DOMAIN returned[p] = ResultKeys
                  /\ Field(returned[p], "risk_level") # "GREEN" =>
                        \E t \in DeclaredTriggers(Field(returned[p], "risk_level")) :
                            /\ t[1] \in DOMAIN symptoms[p].items
                            /\ symptoms[p].items[t[1]] \in DocumentedValues(t[1])
                            /\ symptoms[p].items[t[1]] = t[2]

\* ------------------------------------------------------------------------
\* C10. Every verdict returned has exactly the fields risk_level,
\* mandatory_action and clinical_reason, none of them empty, a risk_level
\* among RED, YELLOW, GREEN, and its action and reason are those of one
\* rule of that level, or both those of the GREEN fallback.
\* ------------------------------------------------------------------------
VerdictComplete ==
    \A p \in Callers :
        pc[p] = "returned" =>
            /\ DOMAIN returned[p] = ResultKeys
            /\ \A k \in ResultKeys : Field(returned[p], k) # ""
            /\ Field(returned[p], "risk_level") \in RiskLevels
            /\ \/ returned[p] = InitGreenResult
               \/ \E i \in 1..Len(InitRules) : returned[p] = VerdictOf(InitRules[i])
            /\ Deref(result[p], _GREEN_RESULT) = returned[p]

\* A verdict built from the fever rule.
FeverVerdictReached ==
    /\ ReturnedFor(1)
    /\ Field(returned[1], "risk_level") = "YELLOW"
    /\ returned[1] = VerdictOf(InitRules[5])

\* ------------------------------------------------------------------------
\* Vocabulary of the properties about two calls
\* ------------------------------------------------------------------------

\* Both calls got a dict and have returned.
BothReturned == ReturnedFor(1) /\ ReturnedFor(2)

\* Severity of a risk level.
Rank(level) == CASE level = "RED" -> 2 [] level = "YELLOW" -> 1 [] OTHER -> 0

\* Every recognised key of the record is absent or None.
AllNullOrAbsent(rec) ==
    \A k \in RecognisedKeys : k \in DOMAIN rec => rec[k] = PyNone

\* The two records hold the same recognised keys with the same values.
AgreeOnRecognised(r1, r2) ==
    \A k \in RecognisedKeys :
        /\ k \in DOMAIN r1 <=> k \in DOMAIN r2
        /\ k \in DOMAIN r1 \cap DOMAIN r2 => r1[k] = r2[k]

\* ------------------------------------------------------------------------
\* C7. None and absence never trigger a rule: a record whose recognised
\* keys are all None or absent gets the GREEN verdict, and a record that
\* differs from another only in one key set to None gets a verdict of the
\* same or a lower risk level.
\* ------------------------------------------------------------------------
NullNeverTriggers ==
    /\ \A p \in Callers :
          (ReturnedFor(p) /\ AllNullOrAbsent(symptoms[p].items)) =>
              returned[p] = InitGreenResult
    /\ \A k \in Keys :
          (BothReturned /\ symptoms[2].items = SetKey(symptoms[1].items, k, PyNone)) =>
              Rank(Field(returned[2], "risk_level")) <=
                  Rank(Field(returned[1], "risk_level"))

\* The first call got RED for convulsions = True with other keys set; the
\* second, with convulsions = None, got less.
NulledTriggerReached ==
    /\ BothReturned
    /\ "convulsions" \in DOMAIN symptoms[1].items
    /\ symptoms[1].items["convulsions"] = PyTrue
    /\ symptoms[2].items = SetKey(symptoms[1].items, "convulsions", PyNone)
    /\ Field(returned[1], "risk_level") = "RED"
    /\ Field(returned[2], "risk_level") = "YELLOW"

\* ------------------------------------------------------------------------
\* C8. Two records that agree on the seven recognised keys get the same
\* verdict: unrecognised keys, added, removed or changed, never matter.
\* ------------------------------------------------------------------------
UnknownKeysIgnored ==
    (BothReturned /\ AgreeOnRecognised(symptoms[1].items, symptoms[2].items)) =>
        returned[1] = returned[2]

\* Two calls whose records differ in the value under "headache" have
\* returned.
UnknownKeyChangedReached ==
    /\ BothReturned
    /\ AgreeOnRecognised(symptoms[1].items, symptoms[2].items)
    /\ "headache" \in DOMAIN symptoms[2].items
    /\ symptoms[2].items["headache"] = PyTrue
    /\ "headache" \notin DOMAIN symptoms[1].items
    /\ Field(returned[2], "risk_level") = "GREEN"

\* ------------------------------------------------------------------------
\* C9. Two calls with the same record return the same verdict, whatever
\* calls were made and whatever verdicts were assigned to in between; a
\* verdict returned is an object of the caller's own, never the fallback
\* object of the module.
\* ------------------------------------------------------------------------
SameRecordSameVerdict ==
    /\ (BothReturned /\ symptoms[1] = symptoms[2]) => returned[1] = returned[2]
    /\ \A p \in Callers : pc[p] = "returned" => result[p].ref = "own"

\* The first caller has assigned to its GREEN verdict, and a later call
\* with the same record has returned.
SecondGreenAfterModifyReached ==
    /\ BothReturned
    /\ symptoms[1] = symptoms[2]
    /\ Field(returned[1], "risk_level") = "GREEN"
    /\ Deref(result[1], _GREEN_RESULT) # returned[1]
    /\ returned[2] = InitGreenResult

\* ------------------------------------------------------------------------
\* Vocabulary of the properties about the order of the table
\* ------------------------------------------------------------------------

\* The record holds the trigger of the i-th declared rule, of that level.
HoldsRule(rec, i, level) ==
    /\ InitRules[i].risk_level = level
    /\ Holds(rec, <<InitRules[i].symptom_key, InitRules[i].trigger_value>>)

\* The place in the declared table of the first rule of the level whose
\* trigger the record holds (0 when there is none).
FirstHolding(rec, level) ==
    IF \E i \in 1..Len(InitRules) : HoldsRule(rec, i, level)
    THEN CHOOSE i \in 1..Len(InitRules) :
             /\ HoldsRule(rec, i, level)
             /\ \A j \in 1..(i - 1) : ~HoldsRule(rec, j, level)
    ELSE 0

\* How many declared rules of the level have their trigger in the record.
NumHolding(rec, level) ==
    Cardinality({ i \in 1..Len(InitRules) : HoldsRule(rec, i, level) })

\* ------------------------------------------------------------------------
\* C11. When the record holds the triggers of several RED rules, the
\* verdict is that of the first of them in the declared order, and the
\* scan stops there: every rule up to that one was tested once, and no
\* rule after it was tested at all.
\* ------------------------------------------------------------------------
FirstRedWins ==
    \A p \in Callers :
        (ReturnedFor(p) /\ HasTrigger(symptoms[p].items, "RED")) =>
            LET first == FirstHolding(symptoms[p].items, "RED") IN
            /\ returned[p] = VerdictOf(InitRules[first])
            /\ \A i \in 1..Len(InitRules) :
                   tested[p][i] = IF i <= first THEN 1 ELSE 0

\* A call whose record holds two RED triggers, the first of them not the
\* first rule of the table, has returned.
SeveralRedReached ==
    /\ ReturnedFor(1)
    /\ NumHolding(symptoms[1].items, "RED") >= 2
    /\ FirstHolding(symptoms[1].items, "RED") = 2
    /\ returned[1] = VerdictOf(InitRules[2])
    /\ tested[1][3] = 0

\* ------------------------------------------------------------------------
\* C12. When the record holds no RED trigger and the triggers of several
\* YELLOW rules, the verdict is that of the first of them in the declared
\* order, and during the scan the retained candidate is never a later one:
\* fever = True with swelling_feet = True gets the verdict of the fever
\* rule.
\* ------------------------------------------------------------------------
FirstYellowRetained ==
    \A p \in Callers :
        (symptoms[p].kind = "dict" /\ pc[p] \in {"loop", "returned"}) =>
            LET first == FirstHolding(symptoms[p].items, "YELLOW") IN
            /\ matched_yellow[p] \in {0, first}
            /\ (pc[p] = "returned" /\ ~HasTrigger(symptoms[p].items, "RED")
                   /\ first # 0) => returned[p] = VerdictOf(InitRules[first])

\* fever = True with swelling_feet = True has got the verdict of the fever
\* rule.
FeverBeforeSwellingReached ==
    /\ ReturnedFor(1)
    /\ Holds(symptoms[1].items, <<"fever", PyTrue>>)
    /\ Holds(symptoms[1].items, <<"swelling_feet", PyTrue>>)
    /\ ~HasTrigger(symptoms[1].items, "RED")
    /\ returned[1].mandatory_action = InitRules[5].mandatory_action
    /\ returned[1].mandatory_action # InitRules[6].mandatory_action

\* ------------------------------------------------------------------------
\* C14. Matching is exact in type and value: a verdict built from a rule
\* whose trigger is the boolean True is returned only for a record that
\* holds the boolean True itself under the rule's key, not the number 1 nor
\* the string "true".
\* ------------------------------------------------------------------------
BooleanTriggerNeedsBoolean ==
    \A p \in Callers :
        ReturnedFor(p) =>
            \A i \in 1..Len(InitRules) :
                ( /\ InitRules[i].trigger_value = PyTrue
                  /\ returned[p] = VerdictOf(InitRules[i]) ) =>
                    /\ InitRules[i].symptom_key \in DOMAIN symptoms[p].items
                    /\ symptoms[p].items[InitRules[i].symptom_key] = PyTrue

\* ------------------------------------------------------------------------
\* C15. evaluate_risk has no side effects: whatever calls were made and
\* whatever the callers did with their verdicts, the rule table and the
\* GREEN fallback hold their initial contents, and from the entry of a
\* call until its caller is done with it the record passed is unchanged.
\* ------------------------------------------------------------------------
NoSideEffects ==
    /\ [](_RULES = InitRules /\ _GREEN_RESULT = InitGreenResult)
    /\ [][\A p \in Callers :
              (pc[p] # "idle" /\ pc'[p] # "idle") => symptoms'[p] = symptoms[p]]_vars

\* After a GREEN call whose verdict the caller assigned to, a call with
\* another record has returned RED.
RedAfterModifiedGreenReached ==
    /\ BothReturned
    /\ symptoms[1] # symptoms[2]
    /\ returned[1] = InitGreenResult
    /\ Deref(result[1], _GREEN_RESULT) # returned[1]
    /\ Field(returned[2], "risk_level") = "RED"

\* ------------------------------------------------------------------------
\* Specification: the rule table declared in another order.  The module is
\* loaded with the seven rules in some order, and one caller calls again
\* and again.
\* ------------------------------------------------------------------------

\* The declared rules in the order f gives.
Reorder(f) == [i \in 1..Len(InitRules) |-> InitRules[f[i]]]

\* Every order of the declared rules.
AllTables == { Reorder(f) : f \in Permutations(1..Len(InitRules)) }

\* The orders that swap two rules, rotate the table or reverse it, and the
\* declared order itself.
NearTables ==
    LET n == Len(InitRules)
        Moved(f) == { i \in 1..n : f[i] # i }
        IsRotation(f) == \E k \in 0..(n - 1) : \A i \in 1..n : f[i] = ((i - 1 + k) % n) + 1
        IsReversal(f) == \A i \in 1..n : f[i] = n + 1 - i
    IN { Reorder(f) : f \in { g \in Permutations(1..n) :
             Cardinality(Moved(g)) <= 2 \/ IsRotation(g) \/ IsReversal(g) } }

\* Records that hold the triggers of several rules of both levels.
MixedRecords ==
    { EmptyDict,
      [k \in {"fever", "bleeding"} |->
          IF k = "fever" THEN PyTrue ELSE PyStr("heavy")],
      [k \in {"fever", "swelling_feet"} |-> PyTrue],
      [k \in {"convulsions", "fever"} |->
          IF k = "fever" THEN PyTrue ELSE PyInt("1")],
      [k \in {"swelling_feet", "abdominal_pain", "fetal_movement"} |->
          CASE k = "swelling_feet" -> PyTrue
            [] k = "abdominal_pain" -> PyStr("mild")
            [] OTHER -> PyStr("decreased")],
      [k \in RecognisedKeys |->
          CASE k = "bleeding" -> PyStr("heavy")
            [] k = "fetal_movement" -> PyStr("decreased")
            [] k = "abdominal_pain" -> PyStr("mild")
            [] OTHER -> PyTrue] }

\* The records called with under a table: all the records of the pair
\* specification under a near order, the mixed ones under any other.
PermRecords(table) ==
    IF table \in NearTables THEN PairRecords ELSE MixedRecords

InitPerm ==
    /\ _RULES \in AllTables
    /\ _GREEN_RESULT = InitGreenResult
    /\ pc = [p \in Callers |-> "idle"]
    /\ symptoms = [p \in Callers |-> NoArg]
    /\ idx = [p \in Callers |-> 0]
    /\ matched_yellow = [p \in Callers |-> 0]
    /\ result = [p \in Callers |-> NoResult]
    /\ error = [p \in Callers |-> "None"]
    /\ returned = [p \in Callers |-> EmptyDict]
    /\ tested = [p \in Callers |-> [i \in 1..Len(InitRules) |-> 0]]
    /\ doctor_phone_number = DoctorNumber
    /\ ToolIdle
    /\ BackendIdle

PermCall ==
    /\ pc[1] = "idle"
    /\ \E rec \in PermRecords(_RULES) : evaluate_risk(1, DictArg(rec))
    /\ UNCHANGED <<toolvars, backendvars>>

PermScan == LoopBody(1) /\ UNCHANGED <<toolvars, backendvars>>
PermFinish == AfterLoop(1) /\ UNCHANGED <<toolvars, backendvars>>
PermConsume == Discard(1) /\ UNCHANGED <<toolvars, backendvars>>

PermNext == PermCall \/ PermScan \/ PermFinish \/ PermConsume

SpecPerm == InitPerm /\ [][PermNext]_vars

\* The tier the declared triggers give a record, whatever their order.
TierOf(rec) ==
    IF HasTrigger(rec, "RED") THEN "RED"
    ELSE IF HasTrigger(rec, "YELLOW") THEN "YELLOW" ELSE "GREEN"

\* ------------------------------------------------------------------------
\* C13. The risk tier does not depend on the order of the table: under
\* every order of the seven rules, a call returns the tier the set of
\* declared triggers gives its record, so a matching YELLOW rule placed
\* before a matching RED rule never prevents RED.
\* ------------------------------------------------------------------------
TierIgnoresOrder ==
    \A p \in Callers :
        ReturnedFor(p) =>
            Field(returned[p], "risk_level") = TierOf(symptoms[p].items)

\* RED returned under a table where a YELLOW rule that matched stands
\* before the RED rule that matched.
RedAfterYellowReached ==
    /\ ReturnedFor(1)
    /\ _RULES # InitRules
    /\ matched_yellow[1] # 0
    /\ matched_yellow[1] < idx[1]
    /\ _RULES[matched_yellow[1]].risk_level = "YELLOW"
    /\ Field(returned[1], "risk_level") = "RED"

\* ------------------------------------------------------------------------
\* Specification: concurrent callers.  Every caller calls when it likes,
\* and the steps of the calls in flight interleave in every way.
\* ------------------------------------------------------------------------

\* The arguments of the concurrent calls: records with no trigger, with
\* triggers of one level and of both, with None, a number or an unknown
\* key, and one argument that is no dict.
ConcArgs ==
    { DictArg(rec) : rec \in MixedRecords }
    \cup { DictArg([k \in {key} |-> v]) :
              <<key, v>> \in { <<"bleeding", PyStr("heavy")>>,
                               <<"bleeding", PyStr("light")>>,
                               <<"fetal_movement", PyStr("absent")>>,
                               <<"fever", PyNone>>,
                               <<"swelling_feet", PyTrue>>,
                               <<"headache", PyTrue>> } }
    \cup { [kind |-> "NoneType", items |-> EmptyDict] }

ConcCall ==
    /\ \E p \in Callers :
           pc[p] = "idle" /\ \E arg \in ConcArgs : evaluate_risk(p, arg)
    /\ UNCHANGED <<toolvars, backendvars>>
ConcScan == (\E p \in Callers : LoopBody(p)) /\ UNCHANGED <<toolvars, backendvars>>
ConcFinish == (\E p \in Callers : AfterLoop(p)) /\ UNCHANGED <<toolvars, backendvars>>
ConcConsume == (\E p \in Callers : Discard(p)) /\ UNCHANGED <<toolvars, backendvars>>

ConcNext == ConcCall \/ ConcScan \/ ConcFinish \/ ConcConsume

SpecConc == Init /\ [][ConcNext]_vars

\* The verdict of a call run alone on the record: that of the first RED
\* rule whose trigger it holds, else of the first YELLOW one, else GREEN.
AloneVerdict(rec) ==
    LET red == FirstHolding(rec, "RED")
        yellow == FirstHolding(rec, "YELLOW")
    IN IF red # 0 THEN VerdictOf(InitRules[red])
       ELSE IF yellow # 0 THEN VerdictOf(InitRules[yellow])
       ELSE InitGreenResult

\* A call run alone returns AloneVerdict of its record (one caller, calls
\* one after the other).
AloneVerdictIsSequential ==
    ReturnedFor(1) => returned[1] = AloneVerdict(symptoms[1].items)

\* ------------------------------------------------------------------------
\* C16. Calls may run concurrently without coordination: under every
\* interleaving of their steps, each call returns the verdict it returns
\* when run alone on its own record, a call with no dict raises TypeError,
\* and the candidate a call retains is a rule its own record matches.
\* ------------------------------------------------------------------------
ConcurrentCallsIndependent ==
    \A p \in Callers :
        /\ ReturnedFor(p) => returned[p] = AloneVerdict(symptoms[p].items)
        /\ pc[p] = "raised" => (symptoms[p].kind # "dict" /\ error[p] = "TypeError")
        /\ (pc[p] = "loop" /\ matched_yellow[p] # 0) =>
               HoldsRule(symptoms[p].items, matched_yellow[p], "YELLOW")

\* Two calls in flight at once: caller 1, with a record that holds no
\* trigger, is in the middle of the scan, and caller 2 has retained a
\* YELLOW candidate and is in the middle of the scan as well.
TwoCallsInFlightReached ==
    /\ pc[1] = "loop" /\ pc[2] = "loop"
    /\ TierOf(symptoms[1].items) = "GREEN"
    /\ idx[1] > 5 /\ idx[1] <= Len(InitRules)
    /\ matched_yellow[1] = 0
    /\ matched_yellow[2] = 5
    /\ idx[2] = 6

\* ------------------------------------------------------------------------
\* POST /vapi/tool: values and requests
\* ------------------------------------------------------------------------

\* Bound: how many entries toolWithToolCallList holds at most.
MaxTools == 2

\* bool(v): the truth value of a Python value.
PyBool(v) ==
    CASE v[1] = "bool" -> v
      [] v[1] = "NoneType" -> PyFalse
      [] v[1] \in {"int", "float"} -> IF NumVal(v) = 0 THEN PyFalse ELSE PyTrue
      [] v[1] = "str" -> IF v[2] = "" THEN PyFalse ELSE PyTrue
      [] OTHER -> PyTrue

\* The strings int() reads as a number.
IntLiterals == {"0", "1", "28"}

\* int(v): the repr of the int, or the exception raised.
PyIntOf(v) ==
    CASE v[1] = "bool" -> [ok |-> TRUE, val |-> IF v = PyTrue THEN "1" ELSE "0"]
      [] v[1] = "int" -> [ok |-> TRUE, val |-> v[2]]
      [] v[1] = "str" -> IF v[2] \in IntLiterals
                         THEN [ok |-> TRUE, val |-> v[2]]
                         ELSE [ok |-> FALSE, val |-> "ValueError"]
      [] OTHER -> [ok |-> FALSE, val |-> "TypeError"]

\* d.get(key, default)
DictGetOr(d, key, default) == IF key \in DOMAIN d THEN d[key] ELSE default

\* A dict of one or two entries, written as a set of <<key, value>>.
DictOf(pairs) ==
    [k \in { q[1] : q \in pairs } |-> (CHOOSE q \in pairs : q[1] = k)[2]]

\* Parameter dicts the assistant may send: the documented values, values
\* of other types, the engine's own name of the headache key, and weeks
\* that int() accepts or not.
ToolParams ==
    { EmptyDict,
      DictOf({<<"bleeding", PyStr("heavy")>>, <<"weeks_pregnant", PyInt("28")>>}),
      DictOf({<<"headache", PyTrue>>}),
      DictOf({<<"headache", PyStr("false")>>}),
      DictOf({<<"fever", PyTrue>>, <<"swelling_feet", PyTrue>>}),
      DictOf({<<"fever", PyInt("1")>>, <<"convulsions", PyNone>>}),
      DictOf({<<"severe_headache", PyTrue>>, <<"bleeding", PyStr("light")>>}),
      DictOf({<<"fetal_movement", PyStr("decreased")>>, <<"weeks_pregnant", PyStr("28")>>}),
      DictOf({<<"abdominal_pain", PyStr("mild")>>, <<"bleeding", PyNone>>}),
      DictOf({<<"convulsions", PyTrue>>, <<"weeks_pregnant", PyStr("seven")>>}),
      DictOf({<<"fever", PyTrue>>, <<"weeks_pregnant", PyNone>>}) }

\* What a tool entry carries as parameters: toolCall.parameters (an
\* object), toolCall.function.arguments (a JSON text that parses to a
\* value, or a text that does not parse), or neither.
RawParams ==
    { [form |-> "parameters", value |-> DictArg(d)] : d \in ToolParams }
    \cup { [form |-> "parameters", value |-> [kind |-> "list", items |-> EmptyDict]] }
    \cup { [form |-> "arguments_json", value |-> v] :
              v \in { DictArg(DictOf({<<"bleeding", PyStr("heavy")>>})),
                      DictArg(DictOf({<<"fever", PyTrue>>})),
                      [kind |-> "NoneType", items |-> EmptyDict] } }
    \cup { [form |-> "arguments_text", value |-> NoArg],
           [form |-> "absent", value |-> NoArg] }

\* The object is falsy: an empty dict (the list of RawParams is not empty).
IsFalsy(obj) == obj.kind = "dict" /\ DOMAIN obj.items = {}

\* params as the handler computes it from the entry.
ParseParams(raw) ==
    CASE raw.form = "parameters" ->
             IF IsFalsy(raw.value) THEN DictArg(EmptyDict) ELSE raw.value
      [] raw.form = "arguments_json" -> raw.value
      [] OTHER -> DictArg(EmptyDict)

\* The entries of toolWithToolCallList: collect_symptoms with any
\* parameters, and another tool.
ToolEntries ==
    { [name |-> "collect_symptoms", raw |-> r] : r \in RawParams }
    \cup { [name |-> "record_consent",
            raw |-> [form |-> "parameters",
                     value |-> DictArg(DictOf({<<"bleeding", PyStr("heavy")>>}))]] }

\* toolCall.id of the i-th entry.
ToolCallId(i) == "tc_" \o ToString(i)

\* The lists of at most n entries.
ToolLists(n) == UNION { [1..m -> ToolEntries] : m \in 0..n }

\* call.controlUrl: absent or empty, or the control URL of the live call.
ControlUrls == {"", "https://control.vapi.test/call_1"}

\* The messages posted to /vapi/tool.
Requests ==
    { [type |-> "tool-calls", call_id |-> "call_1", controlUrl |-> u,
       toolWithToolCallList |-> ts] :
          u \in ControlUrls, ts \in ToolLists(MaxTools) }
    \cup { [type |-> t, call_id |-> "call_1", controlUrl |-> u,
            toolWithToolCallList |-> ts] :
              t \in {"status-update", "unknown"},
              u \in {"https://control.vapi.test/call_1"},
              ts \in ToolLists(1) }

\* DOCTOR_PHONE_NUMBER: empty, a placeholder that starts with your_, or a
\* number.
DoctorNumbers == {"", "your_doctor_number", DoctorNumber}

\* ------------------------------------------------------------------------
\* POST /vapi/tool: the handler, _run_triage and the background tasks
\* ------------------------------------------------------------------------

_BRIDGE_MESSAGE ==
    "Behen, aapki sthiti gambhir lag rahi hai. Main aapko doctor se connect kar rahi hoon."

\* The symptoms dict with severe_headache read from the engine's own name.
MapSymptomsNoRename(params) ==
    [k \in RecognisedKeys |->
        CASE k = "bleeding" -> DictGetOr(params, "bleeding", PyStr("none"))
          [] k = "fetal_movement" -> DictGetOr(params, "fetal_movement", PyStr("normal"))
          [] k = "abdominal_pain" -> DictGetOr(params, "abdominal_pain", PyStr("none"))
          [] OTHER -> PyBool(DictGetOr(params, k, PyFalse))]

\* The symptoms dict _run_triage builds from params.
MapSymptoms(params) ==
    [k \in RecognisedKeys |->
        CASE k = "bleeding" -> DictGetOr(params, "bleeding", PyStr("none"))
          [] k = "severe_headache" -> PyBool(DictGetOr(params, "headache", PyFalse))
          [] k = "fetal_movement" -> DictGetOr(params, "fetal_movement", PyStr("normal"))
          [] k = "fever" -> PyBool(DictGetOr(params, "fever", PyFalse))
          [] k = "swelling_feet" -> PyBool(DictGetOr(params, "swelling_feet", PyFalse))
          [] k = "abdominal_pain" -> DictGetOr(params, "abdominal_pain", PyStr("none"))
          [] OTHER -> PyBool(DictGetOr(params, "convulsions", PyFalse))]

\* spoken_instructions: the f-string as the sequence of its parts.
SpokenInstructions(risk_level, mandatory_action) ==
    IF risk_level = "RED"
    THEN << _BRIDGE_MESSAGE, " TRIAGE COMPLETE. Risk level is RED. You MUST say EXACTLY: \"",
            mandatory_action,
            "\" Then say: 'Behen, ABHI 108 par call karein. Yeh bahut zaroori hai.'" >>
    ELSE << "TRIAGE COMPLETE. Risk level is ", risk_level,
            ". You MUST now say the following EXACTLY word-for-word: \"",
            mandatory_action, "\"" >>

\* A payload whose instructions quote the clinical reason.
BuildPayloadSpeakingReason(triage, w) ==
    [risk_level |-> triage.risk_level,
     mandatory_action |-> triage.mandatory_action,
     clinical_reason |-> triage.clinical_reason,
     weeks_pregnant |-> w,
     instructions |-> SpokenInstructions(triage.risk_level, triage.clinical_reason)]

\* result_payload, before json.dumps.
BuildPayload(triage, w) ==
    [risk_level |-> triage.risk_level,
     mandatory_action |-> triage.mandatory_action,
     clinical_reason |-> triage.clinical_reason,
     weeks_pregnant |-> w,
     instructions |-> SpokenInstructions(triage.risk_level, triage.mandatory_action)]

\* The except branch returning RED as the level.
FallbackPayloadRed ==
    [error |-> "Triage engine error. Please advise caller to visit nearest PHC.",
     risk_level |-> "RED"]

\* The payload returned when evaluate_risk raised.
FallbackPayload ==
    [error |-> "Triage engine error. Please advise caller to visit nearest PHC.",
     risk_level |-> "YELLOW"]

\* Any tool name answered with a GREEN verdict.
UnknownFunctionAsGreen(name) == BuildPayload(InitGreenResult, "0")

\* The payload for a tool that is not collect_symptoms.
UnknownFunctionPayload(name) == [error |-> <<"Unknown function: ", name>>]

\* risk_level != "GREEN" and control_url: a transfer for YELLOW as well.
NeedsTransferNotGreen(risk_level, control_url) ==
    risk_level # "GREEN" /\ control_url # ""

\* risk_level == "RED" and control_url
NeedsTransfer(risk_level, control_url) == risk_level = "RED" /\ control_url # ""

\* await _save_triage_result(...): the save has run, and raised, when the
\* statement is done.
SaveAwaited(i, call_id, risk_level, params) ==
    [kind |-> "save", tool |-> i, state |-> "raised", vapi_call_id |-> call_id,
     risk_level |-> risk_level, symptoms |-> params]

\* asyncio.create_task(_save_triage_result(...)): a task not yet started.
SaveTask(i, call_id, risk_level, params) ==
    [kind |-> "save", tool |-> i, state |-> "pending", vapi_call_id |-> call_id,
     risk_level |-> risk_level, symptoms |-> params]

\* await _transfer_to_doctor(...): the transfer is posted when the
\* statement is done.
TransferAwaited(i, control_url, call_id) ==
    [kind |-> "transfer", tool |-> i, state |-> "posted", control_url |-> control_url,
     call_id |-> call_id, destination |-> DoctorNumber]

\* asyncio.create_task(_transfer_to_doctor(...)): a task not yet started.
TransferTask(i, control_url, call_id) ==
    [kind |-> "transfer", tool |-> i, state |-> "pending", control_url |-> control_url,
     call_id |-> call_id, destination |-> ""]

\* doctor_number is set and no placeholder.
DoctorConfigured(number) == number # "" /\ number # "your_doctor_number"

\* An exception no handler catches leaves vapi_tool: the server answers 500.
Unhandled ==
    /\ hpc' = "failed"
    /\ response' = [status |-> 500, body |-> EmptyDict]
    /\ UNCHANGED <<tool_i, weeks, results, tasks>>
    /\ UNCHANGED enginevars

\* vapi_tool from the request to the for loop.
Receive ==
    /\ hpc = "idle"
    /\ \E req \in Requests :
           /\ request' = req
           /\ IF req.type # "tool-calls"
              THEN /\ response' = [status |-> 200, body |-> EmptyDict]
                   /\ hpc' = "responded"
                   /\ tool_i' = 0
              ELSE /\ hpc' = "loop"
                   /\ tool_i' = 1
                   /\ UNCHANGED response
    /\ results' = <<>>
    /\ UNCHANGED <<backendvars, doctor_phone_number, weeks, tasks>>
    /\ UNCHANGED enginevars

\* One iteration of `for tool in tool_list`, up to the call of
\* evaluate_risk in _run_triage.
ToolStep ==
    /\ hpc = "loop"
    /\ tool_i <= Len(request.toolWithToolCallList)
    /\ LET tool == request.toolWithToolCallList[tool_i]
           params == ParseParams(tool.raw)
       IN IF tool.name # "collect_symptoms"
          THEN /\ results' = Append(results,
                     [toolCallId |-> ToolCallId(tool_i),
                      result |-> UnknownFunctionPayload(tool.name)])
               /\ tool_i' = tool_i + 1
               /\ UNCHANGED <<hpc, weeks, response, tasks>>
               /\ UNCHANGED enginevars
          ELSE IF ~HasGet(params)
               THEN \* params.get on an object that has no such attribute
                    Unhandled
               ELSE LET w == PyIntOf(DictGetOr(params.items, "weeks_pregnant", PyInt("0")))
                    IN IF ~w.ok
                       THEN \* int() raised ValueError or TypeError
                            Unhandled
                       ELSE /\ weeks' = w.val
                            /\ hpc' = "engine"
                            /\ evaluate_risk(1, DictArg(MapSymptoms(params.items)))
                            /\ UNCHANGED <<tool_i, results, response, tasks>>
    /\ UNCHANGED <<backendvars, doctor_phone_number, request>>

\* The steps of evaluate_risk called by _run_triage.
ToolScan == hpc = "engine" /\ LoopBody(1) /\ UNCHANGED <<toolvars, backendvars>>
ToolFinish == hpc = "engine" /\ AfterLoop(1) /\ UNCHANGED <<toolvars, backendvars>>

\* evaluate_risk has returned or raised: the rest of _run_triage and the
\* rest of the iteration, with the tasks it creates.
TriageReturn ==
    /\ hpc = "engine"
    /\ pc[1] \in {"returned", "raised"}
    /\ LET tool == request.toolWithToolCallList[tool_i]
           params == ParseParams(tool.raw)
           payload == IF pc[1] = "raised"
                      THEN FallbackPayload
                      ELSE BuildPayload(Deref(result[1], _GREEN_RESULT), weeks)
           risk_level == payload.risk_level
           saving == Append(tasks, SaveTask(tool_i, request.call_id, risk_level, params))
       IN /\ results' = Append(results,
                [toolCallId |-> ToolCallId(tool_i), result |-> payload])
          /\ tasks' = IF NeedsTransfer(risk_level, request.controlUrl)
                      THEN Append(saving,
                               TransferTask(tool_i, request.controlUrl, request.call_id))
                      ELSE saving
    /\ Discard(1)
    /\ tool_i' = tool_i + 1
    /\ hpc' = "loop"
    /\ UNCHANGED <<backendvars, doctor_phone_number, request, weeks, response>>

\* return JSONResponse({"results": results})
Respond ==
    /\ hpc = "loop"
    /\ tool_i > Len(request.toolWithToolCallList)
    /\ response' = [status |-> 200, body |-> [results |-> results]]
    /\ hpc' = "responded"
    /\ UNCHANGED <<backendvars, doctor_phone_number, request, tool_i, weeks, results, tasks>>
    /\ UNCHANGED enginevars

\* The task the event loop runs next: the oldest one not yet started, once
\* the handler has given the loop back (it awaits nothing after a
\* create_task).
NextTask ==
    IF hpc \in {"responded", "failed"}
       /\ \E k \in 1..Len(tasks) : tasks[k].state = "pending"
    THEN CHOOSE k \in 1..Len(tasks) :
             /\ tasks[k].state = "pending"
             /\ \A j \in 1..(k - 1) : tasks[j].state # "pending"
    ELSE 0

\* _save_triage_result: save_call_summary returns a row id, returns None,
\* or raises (get_supabase_client is called outside its try).
RunSave ==
    /\ NextTask # 0
    /\ tasks[NextTask].kind = "save"
    /\ \E outcome \in {"saved", "none", "raised"} :
           tasks' = [tasks EXCEPT ![NextTask].state = outcome]
    /\ UNCHANGED <<backendvars, doctor_phone_number, request, hpc, tool_i, weeks, results, response>>
    /\ UNCHANGED enginevars

\* _transfer_to_doctor: aborted without a doctor's number; else the
\* transfer is posted to the control URL and succeeds, is refused, or the
\* request fails.
RunTransfer ==
    /\ NextTask # 0
    /\ tasks[NextTask].kind = "transfer"
    /\ IF ~DoctorConfigured(doctor_phone_number)
       THEN tasks' = [tasks EXCEPT ![NextTask].state = "aborted"]
       ELSE \E outcome \in {"posted", "http_error", "exception"} :
                tasks' = [tasks EXCEPT ![NextTask].state = outcome,
                                       ![NextTask].destination = doctor_phone_number]
    /\ UNCHANGED <<backendvars, doctor_phone_number, request, hpc, tool_i, weeks, results, response>>
    /\ UNCHANGED enginevars

InitTool ==
    /\ _RULES = InitRules
    /\ _GREEN_RESULT = InitGreenResult
    /\ pc = [p \in Callers |-> "idle"]
    /\ symptoms = [p \in Callers |-> NoArg]
    /\ idx = [p \in Callers |-> 0]
    /\ matched_yellow = [p \in Callers |-> 0]
    /\ result = [p \in Callers |-> NoResult]
    /\ error = [p \in Callers |-> "None"]
    /\ returned = [p \in Callers |-> EmptyDict]
    /\ tested = [p \in Callers |-> [i \in 1..Len(InitRules) |-> 0]]
    /\ doctor_phone_number \in DoctorNumbers
    /\ ToolIdle
    /\ BackendIdle

ToolNext ==
    \/ Receive
    \/ ToolStep
    \/ ToolScan
    \/ ToolFinish
    \/ TriageReturn
    \/ Respond
    \/ RunSave
    \/ RunTransfer

SpecTool == InitTool /\ [][ToolNext]_vars

\* ------------------------------------------------------------------------
\* Vocabulary of the properties about /vapi/tool
\* ------------------------------------------------------------------------

\* params of the tool entry the handler is at.
CurrentParams == ParseParams(request.toolWithToolCallList[tool_i].raw).items

\* The name the tool schema gives an engine key.
ExternalName(k) == IF k = "severe_headache" THEN "headache" ELSE k

\* The value the mapper takes for an absent key.
DefaultOf(k) ==
    CASE k = "bleeding" -> PyStr("none")
      [] k = "fetal_movement" -> PyStr("normal")
      [] k = "abdominal_pain" -> PyStr("none")
      [] OTHER -> PyFalse

\* The engine keys whose rules have a boolean trigger.
BooleanKeys == {"severe_headache", "fever", "swelling_feet", "convulsions"}

\* The i-th result is a triage result of level RED.
IsRedResult(i) ==
    /\ i \in 1..Len(results)
    /\ "risk_level" \in DOMAIN results[i].result
    /\ results[i].result.risk_level = "RED"

\* The places in tasks of the tasks of a kind created for the i-th tool.
TasksFor(kind, i) ==
    { k \in 1..Len(tasks) : tasks[k].kind = kind /\ tasks[k].tool = i }

\* ------------------------------------------------------------------------
\* C17 as stated. The record _run_triage hands the engine holds exactly
\* the seven recognised keys, the external 'headache' value under
\* severe_headache and every other symptom under its own name, each with
\* its value unchanged, or its default when absent.
\* ------------------------------------------------------------------------
MapperPassesValuesUnchanged ==
    hpc = "engine" =>
        /\ symptoms[1].kind = "dict"
        /\ DOMAIN symptoms[1].items = RecognisedKeys
        /\ \A k \in RecognisedKeys :
               symptoms[1].items[k] =
                   DictGetOr(CurrentParams, ExternalName(k), DefaultOf(k))

\* ------------------------------------------------------------------------
\* C17 amended. The record _run_triage hands the engine holds exactly the
\* seven recognised keys; bleeding, fetal_movement and abdominal_pain hold
\* the external value unchanged; severe_headache (from 'headache'), fever,
\* swelling_feet and convulsions hold bool() of the external value, which
\* is the value itself when it is a boolean; an absent key gets its
\* default.  No other key, weeks_pregnant included, reaches the engine.
\* ------------------------------------------------------------------------
MapperCoercesBooleans ==
    hpc = "engine" =>
        /\ symptoms[1].kind = "dict"
        /\ DOMAIN symptoms[1].items = RecognisedKeys
        /\ \A k \in RecognisedKeys :
               LET v == DictGetOr(CurrentParams, ExternalName(k), DefaultOf(k))
               IN IF k \in BooleanKeys
                  THEN /\ symptoms[1].items[k] \in BoolValues
                       /\ symptoms[1].items[k] = PyBool(v)
                       /\ v \in BoolValues => symptoms[1].items[k] = v
                  ELSE symptoms[1].items[k] = v

\* The engine was handed severe_headache = True for headache = "false",
\* and the verdict is RED.
StringHeadacheCoercedReached ==
    /\ hpc = "engine"
    /\ "headache" \in DOMAIN CurrentParams
    /\ CurrentParams["headache"] = PyStr("false")
    /\ symptoms[1].items["severe_headache"] = PyTrue
    /\ pc[1] = "returned"
    /\ Field(returned[1], "risk_level") = "RED"

TransferOnlyForRed ==
    /\ \A k \in 1..Len(tasks) :
          tasks[k].kind = "transfer" =>
              /\ request.type = "tool-calls"
              /\ request.toolWithToolCallList[tasks[k].tool].name = "collect_symptoms"
              /\ IsRedResult(tasks[k].tool)
              /\ results[tasks[k].tool].result # FallbackPayload
    /\ \A i \in 1..Len(results) :
          ~IsRedResult(i) => TasksFor("transfer", i) = {}
    /\ request.type \notin {"none", "tool-calls"} => (tasks = <<>> /\ results = <<>>)

\* With a control URL, the response to a YELLOW collect_symptoms entry
\* and an unknown tool has been returned, and the only task is the save.
NoTransferForYellowReached ==
    /\ hpc = "responded"
    /\ request.controlUrl # ""
    /\ Len(results) = 2
    /\ Field(results[1].result, "risk_level") = "YELLOW"
    /\ request.toolWithToolCallList[2].name = "record_consent"
    /\ Len(tasks) = 1
    /\ tasks[1].kind = "save"

\* ------------------------------------------------------------------------
\* C20. Persistence cannot fail or block a classification: a save task is
\* created only for a tool whose result is already in results, with the
\* risk level of that result; no save has started while the handler has
\* not returned; and once returned, the response and the result list stay
\* as they are whether a save succeeds, returns nothing or raises.
\* ------------------------------------------------------------------------
SaveNeverAffectsResponse ==
    /\ [](\A k \in 1..Len(tasks) :
             tasks[k].kind = "save" =>
                 /\ tasks[k].tool \in 1..Len(results)
                 /\ Field(results[tasks[k].tool].result, "risk_level") =
                        tasks[k].risk_level
                 /\ hpc \in {"loop", "engine"} => tasks[k].state = "pending")
    /\ [][response # NoResponse =>
              (response' = response /\ results' = results)]_vars

\* The response with a RED result has been returned, and then the save of
\* that result raised.
SaveRaisedAfterResponseReached ==
    /\ hpc = "responded"
    /\ request.type = "tool-calls"
    /\ response = [status |-> 200, body |-> [results |-> results]]
    /\ IsRedResult(1)
    /\ \E k \in TasksFor("save", 1) : tasks[k].state = "raised"

\* ------------------------------------------------------------------------
\* Specification: /vapi/tool with an engine that may fail.  On the dict
\* _run_triage builds evaluate_risk raises nothing, so the failure the
\* except branch of _run_triage is there for is an exception raised
\* somewhere in the scan.
\* ------------------------------------------------------------------------

\* The entries of the requests handled with a failing engine.
FaultEntries ==
    { [name |-> "collect_symptoms", raw |-> [form |-> "parameters", value |-> DictArg(d)]] :
          d \in { EmptyDict,
                  DictOf({<<"bleeding", PyStr("heavy")>>, <<"weeks_pregnant", PyInt("28")>>}),
                  DictOf({<<"fever", PyTrue>>, <<"swelling_feet", PyTrue>>}),
                  DictOf({<<"headache", PyTrue>>}) } }
    \cup { [name |-> "record_consent",
            raw |-> [form |-> "parameters",
                     value |-> DictArg(DictOf({<<"bleeding", PyStr("heavy")>>}))]] }

FaultRequests ==
    { [type |-> "tool-calls", call_id |-> "call_1", controlUrl |-> u,
       toolWithToolCallList |-> ts] :
          u \in ControlUrls,
          ts \in UNION { [1..m -> FaultEntries] : m \in 0..MaxTools } }

\* vapi_tool from the request to the for loop, for a tool-calls event.
FaultReceive ==
    /\ hpc = "idle"
    /\ \E req \in FaultRequests :
           /\ request' = req
           /\ hpc' = "loop"
           /\ tool_i' = 1
    /\ results' = <<>>
    /\ UNCHANGED <<backendvars, doctor_phone_number, weeks, tasks, response>>
    /\ UNCHANGED enginevars

\* evaluate_risk raises in the middle of the scan.
EngineFails ==
    /\ hpc = "engine"
    /\ pc[1] = "loop"
    /\ Raise(1, "RuntimeError")
    /\ UNCHANGED <<_RULES, _GREEN_RESULT, symptoms, idx, matched_yellow, tested>>
    /\ UNCHANGED <<toolvars, backendvars>>

FaultNext ==
    \/ FaultReceive
    \/ ToolStep
    \/ ToolScan
    \/ ToolFinish
    \/ EngineFails
    \/ TriageReturn
    \/ Respond
    \/ RunSave
    \/ RunTransfer

SpecToolFault == InitTool /\ [][FaultNext]_vars

\* The i-th result is the guidance given when the engine failed.
IsFallbackResult(i) ==
    /\ i \in 1..Len(results)
    /\ DOMAIN results[i].result = {"error", "risk_level"}

\* ------------------------------------------------------------------------
\* C21. If the engine fails while a collect_symptoms call is handled, the
\* caller still gets guidance: the step that follows the failure is the
\* rest of _run_triage, which appends a result of level YELLOW advising a
\* PHC visit, no exception leaves the handler, and YELLOW is the level
\* used for that call everywhere: in the result, in the save task, and in
\* the transfer decision, so that no transfer is started for it.
\* ------------------------------------------------------------------------
EngineFailureGivesYellow ==
    /\ [][(hpc = "engine" /\ pc[1] = "raised") =>
              /\ hpc' = "loop"
              /\ Len(results') = tool_i
              /\ results'[tool_i].toolCallId = ToolCallId(tool_i)
              /\ results'[tool_i].result.risk_level = "YELLOW"
              /\ results'[tool_i].result.error =
                     "Triage engine error. Please advise caller to visit nearest PHC."]_vars
    /\ [](\A i \in 1..Len(results) :
             IsFallbackResult(i) =>
                 /\ results[i].result.risk_level = "YELLOW"
                 /\ Cardinality(TasksFor("save", i)) = 1
                 /\ \A k \in TasksFor("save", i) : tasks[k].risk_level = "YELLOW"
                 /\ TasksFor("transfer", i) = {})
    /\ [](hpc # "failed" /\ response.status # 500)

\* With a control URL, the engine failed for a record with heavy bleeding,
\* and the response with the YELLOW guidance has been returned.
FallbackAnsweredReached ==
    /\ hpc = "responded"
    /\ request.controlUrl # ""
    /\ Len(results) >= 1
    /\ IsFallbackResult(1)
    /\ ParseParams(request.toolWithToolCallList[1].raw).items =
           DictOf({<<"bleeding", PyStr("heavy")>>, <<"weeks_pregnant", PyInt("28")>>})
    /\ response = [status |-> 200, body |-> [results |-> results]]

\* ------------------------------------------------------------------------
\* C22. Malformed upstream data never aborts the handling of a call: for
\* every tool-calls event, whatever the parameters of its entries, the
\* handler ends with a response that holds exactly one result per entry
\* of toolWithToolCallList, in order and with that entry's toolCallId.
\* ------------------------------------------------------------------------
OneResultPerEntry ==
    (request.type = "tool-calls" /\ hpc \in {"responded", "failed"}) =>
        /\ response.status = 200
        /\ response.body = [results |-> results]
        /\ Len(results) = Len(request.toolWithToolCallList)
        /\ \A i \in 1..Len(results) : results[i].toolCallId = ToolCallId(i)

\* The i-th result is a triage verdict (not an error).
IsTriageResult(i) ==
    /\ i \in 1..Len(results)
    /\ "instructions" \in DOMAIN results[i].result

\* The parts of the instructions of the i-th result.
InstructionParts(i) ==
    { results[i].result.instructions[k] :
          k \in 1..Len(results[i].result.instructions) }

\* ------------------------------------------------------------------------
\* C23 as stated. For every verdict the spoken instructions contain the
\* mandatory_action verbatim and never the clinical_reason, and the
\* clinical_reason is not handed to the assistant at all: it is no part
\* of the tool result.
\* ------------------------------------------------------------------------
ClinicalReasonNotHandedOver ==
    \A i \in 1..Len(results) :
        IsTriageResult(i) =>
            /\ results[i].result.mandatory_action \in InstructionParts(i)
            /\ results[i].result.clinical_reason \notin InstructionParts(i)
            /\ "clinical_reason" \notin DOMAIN results[i].result

\* ------------------------------------------------------------------------
\* C23 as the code has it. The instructions _run_triage builds quote the
\* engine's mandatory_action unmodified and have no part that is the
\* clinical_reason; the clinical_reason is returned beside them as a
\* field of its own of the same tool result, and it is no part of what the
\* save task records.
\* ------------------------------------------------------------------------
InstructionsQuoteActionOnly ==
    /\ [][(hpc = "engine" /\ pc[1] = "returned") =>
              LET r == results'[tool_i].result
              IN /\ r.mandatory_action = Field(returned[1], "mandatory_action")
                 /\ r.clinical_reason = Field(returned[1], "clinical_reason")
                 /\ \E k \in 1..Len(r.instructions) :
                        r.instructions[k] = Field(returned[1], "mandatory_action")
                 /\ \A k \in 1..Len(r.instructions) :
                        r.instructions[k] # Field(returned[1], "clinical_reason")]_vars
    /\ [](\A i \in 1..Len(results) :
             IsTriageResult(i) =>
                 /\ results[i].result.mandatory_action \in InstructionParts(i)
                 /\ results[i].result.clinical_reason \notin InstructionParts(i)
                 /\ \A k \in TasksFor("save", i) :
                        "clinical_reason" \notin DOMAIN tasks[k])

\* A RED and a GREEN verdict have been returned in one response.
RedAndGreenInstructionsReached ==
    /\ hpc = "responded"
    /\ Len(results) = 2
    /\ IsTriageResult(1) /\ results[1].result.risk_level = "RED"
    /\ _BRIDGE_MESSAGE \in InstructionParts(1)
    /\ IsTriageResult(2) /\ results[2].result.risk_level = "GREEN"
    /\ results[2].result.clinical_reason # ""

\* The entry the handler is at is not a collect_symptoms call.
AtUnknownTool ==
    /\ hpc = "loop"
    /\ tool_i <= Len(request.toolWithToolCallList)
    /\ request.toolWithToolCallList[tool_i].name # "collect_symptoms"

\* ------------------------------------------------------------------------
\* C28. A tool call at /vapi/tool whose function name is not
\* collect_symptoms gets an error result carrying its toolCallId; for it
\* the engine is not called, no save task and no transfer task is
\* created, and the handler goes on with the next entry, so that the
\* collect_symptoms calls of a handled event have their verdicts.
\* ------------------------------------------------------------------------
UnknownToolGetsErrorOnly ==
    /\ [][AtUnknownTool =>
              /\ results' = Append(results,
                     [toolCallId |-> ToolCallId(tool_i),
                      result |-> [error |-> <<"Unknown function: ",
                                             request.toolWithToolCallList[tool_i].name>>]])
              /\ tasks' = tasks
              /\ enginevars' = enginevars
              /\ hpc' = "loop"
              /\ tool_i' = tool_i + 1]_vars
    /\ [](\A i \in 1..Len(results) :
             request.toolWithToolCallList[i].name # "collect_symptoms" =>
                 /\ DOMAIN results[i].result = {"error"}
                 /\ results[i].toolCallId = ToolCallId(i)
                 /\ TasksFor("save", i) = {}
                 /\ TasksFor("transfer", i) = {})
    /\ [](hpc = "responded" /\ request.type = "tool-calls" =>
             \A i \in 1..Len(request.toolWithToolCallList) :
                 request.toolWithToolCallList[i].name = "collect_symptoms" =>
                     /\ results[i].toolCallId = ToolCallId(i)
                     /\ "risk_level" \in DOMAIN results[i].result
                     /\ TasksFor("save", i) # {})

\* An unknown tool that carries heavy bleeding was answered with the
\* error, and the RED collect_symptoms call after it was triaged and its
\* transfer started.
UnknownThenTriagedReached ==
    /\ hpc = "responded"
    /\ Len(results) = 2
    /\ request.toolWithToolCallList[1].name = "record_consent"
    /\ DOMAIN results[1].result = {"error"}
    /\ IsRedResult(2)
    /\ TasksFor("transfer", 2) # {}
    /\ TasksFor("transfer", 1) = {}

\* ------------------------------------------------------------------------
\* Specification: two calls, the second with the record of the first in
\* which one value is replaced by a more severe one.
\* ------------------------------------------------------------------------

\* The place of a documented value in the order of severity of its key:
\* none < light < heavy, normal < decreased < absent, none < mild < severe,
\* false < true.
Severity(value) ==
    CASE value \in {PyStr("none"), PyStr("normal"), PyFalse} -> 0
      [] value \in {PyStr("light"), PyStr("decreased"), PyStr("mild"), PyTrue} -> 1
      [] OTHER -> 2

\* The records that are rec with one value replaced by a more severe one.
MoreSevere(rec) ==
    UNION { { SetKey(rec, k, v) :
                  v \in { x \in DocumentedValues(k) : Severity(x) > Severity(rec[k]) } } :
            k \in RecognisedKeys }

SeverityFirstCall ==
    /\ pc[1] = "idle"
    /\ pc[2] = "idle"
    /\ \E rec \in WellTypedRecords : evaluate_risk(1, DictArg(rec))
    /\ UNCHANGED <<toolvars, backendvars>>

SeverityLaterCall ==
    /\ pc[1] = "returned"
    /\ pc[2] = "idle"
    /\ \E rec \in MoreSevere(symptoms[1].items) : evaluate_risk(2, DictArg(rec))
    /\ UNCHANGED <<toolvars, backendvars>>

SeverityNext ==
    \/ SeverityFirstCall
    \/ SeverityLaterCall
    \/ PairScan
    \/ PairFinish
    \/ PairConsume

SpecSeverity == Init /\ [][SeverityNext]_vars

\* ------------------------------------------------------------------------
\* C30. The risk tier is monotone in symptom severity: when the record of
\* the second call is the record of the first with one value replaced by
\* a more severe one, the tier of the second verdict is not lower than the
\* tier of the first.
\* ------------------------------------------------------------------------
TierMonotoneInSeverity ==
    (BothReturned /\ symptoms[2].items \in MoreSevere(symptoms[1].items)) =>
        Rank(Field(returned[2], "risk_level")) >= Rank(Field(returned[1], "risk_level"))

\* ------------------------------------------------------------------------
\* The database layer: db/supabase_client.py, and _update_consent of
\* routers/vapi.py
\* ------------------------------------------------------------------------

\* The most rows of calls a behaviour inserts.
MaxCalls == 2

\* The id of the users row of a phone; "" stands for None.
UserId(phone) == "user_" \o phone
NoId == ""

\* upsert(..., on_conflict="phone") without ignore_duplicates: the row of
\* the phone is inserted, or, when there is one, updated with the values
\* given (PostgREST resolution=merge-duplicates).
Upsert(table, phone, consent) == [table EXCEPT ![phone] = UserRow(consent)]

\* An upsert that leaves an existing row as it is.
UpsertIgnoringDuplicates(table, phone, consent) ==
    IF table[phone].present THEN table ELSE Upsert(table, phone, consent)

\* What may go wrong in one run of save_call_summary: nothing, the upsert
\* raises, the upsert returns no rows (the row is then fetched), the fetch
\* raises, the insert into calls raises or returns no rows, or the insert
\* into emergency_logs raises.
Faults ==
    {"none", "upsert", "upsert_no_data", "fetch", "insert", "insert_no_data",
     "emergency"}

\* The phone arguments: the callers' numbers, the placeholder vapi_tool
\* passes when the event has no number, and the empty string.
PhoneArgs == Phones \cup {"unknown", ""}

\* The risk_level arguments: the three tiers and a value that is none.
RiskArgs == {"RED", "YELLOW", "GREEN", "PURPLE"}

\* get_or_create_user once the client exists: the table afterwards and the
\* id returned.
get_or_create_user(table, phone, fault) ==
    IF phone = "" \/ phone = "unknown"
    THEN [users |-> table, user_id |-> NoId]
    ELSE IF fault = "upsert"
    THEN [users |-> table, user_id |-> NoId]
    ELSE IF fault = "fetch"
    THEN [users |-> Upsert(table, phone, FALSE), user_id |-> NoId]
    ELSE [users |-> Upsert(table, phone, FALSE), user_id |-> UserId(phone)]

\* The risk_level column of the calls row: set only for a valid tier.
StoredRisk(risk_level) ==
    IF risk_level \in {"RED", "YELLOW", "GREEN"} THEN risk_level ELSE "NULL"

\* An emergency log for every call that is not GREEN.
NeedsEmergencyLogNotGreen(risk_level) == risk_level # "GREEN"

\* if risk_level == "RED"
NeedsEmergencyLog(risk_level) == risk_level = "RED"

\* _log_emergency: the table afterwards; an exception is logged only.
_log_emergency(logs, call_id, user_id, fails) ==
    IF fails THEN logs
    ELSE Append(logs, [call_id |-> call_id, user_id |-> user_id,
                       notified_asha |-> FALSE])

Operation(op, phone, arg, outcome, call_id, emergency) ==
    [op |-> op, phone |-> phone, arg |-> arg, outcome |-> outcome,
     call_id |-> call_id, emergency |-> emergency]

\* save_call_summary(phone=..., risk_level=..., ...)
SaveCallSummary ==
    /\ Len(calls) < MaxCalls
    /\ \E phone \in PhoneArgs, risk_level \in RiskArgs, fault \in Faults :
          IF ~supabase_configured
          THEN \* get_supabase_client raises ValueError, outside any try
               /\ last' = Operation("save_call_summary", phone, risk_level, "raised",
                                     0, "not_attempted")
               /\ UNCHANGED <<users, calls, emergency_logs>>
          ELSE LET u == get_or_create_user(users, phone, fault)
                   call_db_id == Len(calls) + 1
               IN /\ users' = u.users
                  /\ IF u.user_id = NoId \/ fault \in {"insert", "insert_no_data"}
                     THEN /\ last' = Operation("save_call_summary", phone, risk_level,
                                                "none", 0, "not_attempted")
                          /\ UNCHANGED <<calls, emergency_logs>>
                     ELSE /\ calls' = Append(calls,
                                 [id |-> call_db_id, user_id |-> u.user_id,
                                  risk_level |-> StoredRisk(risk_level)])
                          /\ IF NeedsEmergencyLog(risk_level)
                             THEN /\ emergency_logs' =
                                         _log_emergency(emergency_logs, call_db_id,
                                                        u.user_id, fault = "emergency")
                                  /\ last' = Operation("save_call_summary", phone,
                                         risk_level, "id", call_db_id,
                                         IF fault = "emergency" THEN "failed" ELSE "written")
                             ELSE /\ UNCHANGED emergency_logs
                                  /\ last' = Operation("save_call_summary", phone,
                                         risk_level, "id", call_db_id, "not_attempted")
    /\ UNCHANGED <<supabase_configured, hookvars>>
    /\ UNCHANGED <<enginevars, toolvars>>

\* get_or_create_user(phone) called by itself.
GetOrCreateUser ==
    /\ \E phone \in PhoneArgs, fault \in {"none", "upsert", "upsert_no_data", "fetch"} :
          IF phone # "" /\ phone # "unknown" /\ ~supabase_configured
          THEN /\ last' = Operation("get_or_create_user", phone, "", "raised", 0,
                                     "not_attempted")
               /\ UNCHANGED users
          ELSE LET u == get_or_create_user(users, phone, fault)
               IN /\ users' = u.users
                  /\ last' = Operation("get_or_create_user", phone, "",
                                IF u.user_id = NoId THEN "none" ELSE "id", 0,
                                "not_attempted")
    /\ UNCHANGED <<supabase_configured, calls, emergency_logs, hookvars>>
    /\ UNCHANGED <<enginevars, toolvars>>

\* _update_consent(phone, consent), as record_consent runs it for the
\* digits '1' and '2'; what it raises is caught by its caller.
UpdateConsent ==
    /\ \E phone \in Phones, digit \in {"1", "2"}, fails \in BOOLEAN :
          IF ~supabase_configured \/ fails
          THEN /\ last' = Operation("record_consent", phone, digit, "raised", 0,
                                     "not_attempted")
               /\ UNCHANGED users
          ELSE /\ users' = Upsert(users, phone, digit = "1")
               /\ last' = Operation("record_consent", phone, digit, "none", 0,
                                     "not_attempted")
    /\ UNCHANGED <<supabase_configured, calls, emergency_logs, hookvars>>
    /\ UNCHANGED <<enginevars, toolvars>>

InitDb ==
    /\ _RULES = InitRules
    /\ _GREEN_RESULT = InitGreenResult
    /\ pc = [p \in Callers |-> "idle"]
    /\ symptoms = [p \in Callers |-> NoArg]
    /\ idx = [p \in Callers |-> 0]
    /\ matched_yellow = [p \in Callers |-> 0]
    /\ result = [p \in Callers |-> NoResult]
    /\ error = [p \in Callers |-> "None"]
    /\ returned = [p \in Callers |-> EmptyDict]
    /\ tested = [p \in Callers |-> [i \in 1..Len(InitRules) |-> 0]]
    /\ doctor_phone_number = DoctorNumber
    /\ ToolIdle
    /\ supabase_configured \in BOOLEAN
    /\ users = [ph \in Phones |-> NoUser]
    /\ calls = <<>>
    /\ emergency_logs = <<>>
    /\ last = NoOperation
    /\ vapi_webhook_secret = ""
    /\ hook_request = NoHookRequest
    /\ hook_pc = "idle"
    /\ hook_i = 0
    /\ hook_results = <<>>
    /\ hook_response = NoResponse

DbNext ==
    \/ SaveCallSummary
    \/ GetOrCreateUser
    \/ UpdateConsent

SpecDb == InitDb /\ [][DbNext]_vars

\* ------------------------------------------------------------------------
\* C25. save_call_summary never raises: whichever step fails, creating
\* the database client included, the function returns None or the call id.
\* ------------------------------------------------------------------------
SaveCallSummaryNeverRaises ==
    last.op = "save_call_summary" => last.outcome \in {"none", "id"}

\* ------------------------------------------------------------------------
\* C26. Resolving a user never downgrades consent: a step in which the
\* consent of a phone goes from true to false is a record_consent with
\* digit '2' for that phone, never a get_or_create_user or a
\* save_call_summary.
\* ------------------------------------------------------------------------
ConsentNeverDowngraded ==
    [][\A ph \in Phones :
          (users[ph].present /\ users[ph].consent_given /\ ~users'[ph].consent_given) =>
              /\ last'.op = "record_consent"
              /\ last'.arg = "2"
              /\ last'.phone = ph]_vars

\* The emergency logs that refer to the calls row with the id.
LogsOf(call_id) ==
    { k \in 1..Len(emergency_logs) : emergency_logs[k].call_id = call_id }

\* ------------------------------------------------------------------------
\* C27. save_call_summary attempts an emergency_logs row iff risk_level
\* is RED and the calls row was inserted: every emergency log refers to an
\* existing calls row saved with RED for the same user, a call that is
\* not RED or whose row was not inserted adds no log, and when the write
\* of the log fails the id of the calls row is returned all the same.
\* ------------------------------------------------------------------------
EmergencyLogIffRedInserted ==
    /\ [](\A k \in 1..Len(emergency_logs) :
             /\ emergency_logs[k].call_id \in 1..Len(calls)
             /\ calls[emergency_logs[k].call_id].risk_level = "RED"
             /\ calls[emergency_logs[k].call_id].user_id = emergency_logs[k].user_id
             /\ LogsOf(emergency_logs[k].call_id) = {k})
    /\ [](last.op = "save_call_summary" =>
             (last.emergency # "not_attempted" <=>
                  (last.arg = "RED" /\ last.outcome = "id")))
    /\ [](last.op = "save_call_summary" /\ last.emergency = "failed" =>
             /\ last.outcome = "id"
             /\ last.call_id = Len(calls)
             /\ LogsOf(last.call_id) = {})
    /\ [][IF Len(calls') > Len(calls)
           THEN /\ last'.outcome = "id"
                /\ last'.call_id = Len(calls')
                /\ IF calls'[Len(calls')].risk_level = "RED"
                   THEN \/ /\ last'.emergency = "written"
                            /\ emergency_logs' = Append(emergency_logs,
                                   [call_id |-> Len(calls'),
                                    user_id |-> calls'[Len(calls')].user_id,
                                    notified_asha |-> FALSE])
                        \/ /\ last'.emergency = "failed"
                            /\ emergency_logs' = emergency_logs
                   ELSE emergency_logs' = emergency_logs
           ELSE emergency_logs' = emergency_logs]_vars

\* After a RED call that was logged, the log of a second RED call failed
\* and its id was returned.
EmergencyLogFailedReached ==
    /\ last.op = "save_call_summary"
    /\ last.arg = "RED"
    /\ last.emergency = "failed"
    /\ last.outcome = "id"
    /\ last.call_id = 2
    /\ Len(calls) = 2
    /\ LogsOf(1) # {}
    /\ LogsOf(2) = {}

\* ------------------------------------------------------------------------
\* Specification: POST /vapi/webhook (routers/vapi.py), with the secret
\* check, the dispatch on the event type, and record_consent.
\* ------------------------------------------------------------------------

\* VAPI_WEBHOOK_SECRET: unset, the placeholder of the example
\* environment, or a secret.
WebhookSecret == "s3cr3t"
SecretSettings == {"", "your_vapi_webhook_secret", WebhookSecret}

\* The x-vapi-secret header: missing, empty, the secret, another value.
NoHeader == [present |-> FALSE, value |-> ""]
Headers ==
    {NoHeader} \cup { [present |-> TRUE, value |-> v] : v \in {"", WebhookSecret, "wrong"} }

\* expected_secret and not expected_secret.startswith("your_")
SecretEnforced(expected) == expected # "" /\ expected # "your_vapi_webhook_secret"

\* A comparison that accepts every header.
compare_digest_any(given, expected) == TRUE

\* secrets.compare_digest
compare_digest(given, expected) == given = expected

\* The number of the caller in message.call.customer.
CallerPhone == "+919800000001"

\* The entries of toolWithToolCallList: record_consent with the digit as
\* text or as a number, with a digit that is no answer, without a digit,
\* with a phone_number of its own, and a tool this endpoint does not know.
HookEntries ==
    { [name |-> "record_consent", parameters |-> d] :
          d \in { DictOf({<<"digit", PyStr("1")>>}),
                  DictOf({<<"digit", PyStr("2")>>}),
                  DictOf({<<"digit", PyInt("1")>>,
                          <<"phone_number", PyStr("+919800000002")>>}),
                  DictOf({<<"digit", PyStr("9")>>}),
                  EmptyDict } }
    \cup { [name |-> "collect_symptoms", parameters |-> DictOf({<<"digit", PyStr("1")>>})] }

HookRequests ==
    { [type |-> "tool-calls", header |-> h, toolWithToolCallList |-> ts] :
          h \in Headers, ts \in UNION { [1..m -> HookEntries] : m \in 0..MaxTools } }
    \cup { [type |-> t, header |-> h, toolWithToolCallList |-> <<>>] :
              t \in {"assistant-request", "status-update", "malformed"}, h \in Headers }

\* str(parameters.get("digit", "")).strip(), for values that hold no
\* white space.
DigitText(parameters) == DictGetOr(parameters, "digit", PyStr(""))[2]

\* parameters.get("phone_number") or caller_phone
ConsentPhone(parameters) ==
    LET given == DictGetOr(parameters, "phone_number", PyNone)
    IN IF PyBool(given) = PyTrue THEN given[2] ELSE CallerPhone

\* What the assistant is to say for a digit.
ConsentAck(digit) ==
    CASE digit = "1" -> "Aapki sehmati darj kar li gayi hai. Dhanyavaad. Ab hum aapki madad ke liye taiyaar hain."
      [] digit = "2" -> "Aapne mana kar diya. Hum call record nahi karenge. Aap phir bhi sahayta le sakti hain."
      [] OTHER -> "Maafi chahiye, mujhe samajh nahi aaya. Kripya 1 ya 2 dabayein."

\* The acknowledgement alone, whether the write failed or not.
ConsentResultSilent(digit, failed) == <<ConsentAck(digit)>>

\* spoken_result, with the note the except branch adds.
ConsentResult(digit, failed) ==
    IF failed
    THEN <<ConsentAck(digit), " (Record nahi hua, kripya baad mein try karein.)">>
    ELSE <<ConsentAck(digit)>>

\* vapi_webhook up to the dispatch on the event type.
HookReceive ==
    /\ hook_pc = "idle"
    /\ \E req \in HookRequests :
          /\ hook_request' = req
          /\ IF SecretEnforced(vapi_webhook_secret)
                /\ (~req.header.present \/ req.header.value = "")
             THEN /\ hook_response' = [status |-> 401, body |-> "Missing webhook secret"]
                  /\ hook_pc' = "rejected"
                  /\ UNCHANGED hook_i
             ELSE IF SecretEnforced(vapi_webhook_secret)
                     /\ ~compare_digest(req.header.value, vapi_webhook_secret)
             THEN /\ hook_response' = [status |-> 401, body |-> "Invalid webhook secret"]
                  /\ hook_pc' = "rejected"
                  /\ UNCHANGED hook_i
             ELSE IF req.type = "malformed"
             THEN /\ hook_response' = [status |-> 400, body |-> "Invalid JSON body"]
                  /\ hook_pc' = "rejected"
                  /\ UNCHANGED hook_i
             ELSE IF req.type = "tool-calls"
             THEN /\ hook_pc' = "loop"
                  /\ hook_i' = 1
                  /\ UNCHANGED hook_response
             ELSE /\ hook_response' =
                         [status |-> 200,
                          body |-> IF req.type = "assistant-request"
                                   THEN "assistant" ELSE "empty"]
                  /\ hook_pc' = "responded"
                  /\ UNCHANGED hook_i
    /\ hook_results' = <<>>
    /\ UNCHANGED <<vapi_webhook_secret, dbvars>>
    /\ UNCHANGED <<enginevars, toolvars>>

\* One iteration of the for loop of _handle_tool_calls.
ConsentStep ==
    /\ hook_pc = "loop"
    /\ hook_i <= Len(hook_request.toolWithToolCallList)
    /\ LET tool == hook_request.toolWithToolCallList[hook_i]
           digit == DigitText(tool.parameters)
           phone == ConsentPhone(tool.parameters)
       IN IF tool.name # "record_consent"
          THEN /\ hook_results' = Append(hook_results,
                      [toolCallId |-> ToolCallId(hook_i),
                       result |-> <<"Function not recognised.">>])
               /\ UNCHANGED <<users, last>>
          ELSE IF digit \notin {"1", "2"}
          THEN /\ hook_results' = Append(hook_results,
                      [toolCallId |-> ToolCallId(hook_i),
                       result |-> <<ConsentAck(digit)>>])
               /\ UNCHANGED <<users, last>>
          ELSE \E fails \in BOOLEAN :
                  LET failed == ~supabase_configured \/ fails
                  IN /\ users' = IF failed THEN users
                                  ELSE Upsert(users, phone, digit = "1")
                     /\ last' = Operation("record_consent", phone, digit,
                                   IF failed THEN "raised" ELSE "none", 0,
                                   "not_attempted")
                     /\ hook_results' = Append(hook_results,
                            [toolCallId |-> ToolCallId(hook_i),
                             result |-> ConsentResult(digit, failed)])
    /\ hook_i' = hook_i + 1
    /\ UNCHANGED <<supabase_configured, calls, emergency_logs>>
    /\ UNCHANGED <<vapi_webhook_secret, hook_request, hook_pc, hook_response>>
    /\ UNCHANGED <<enginevars, toolvars>>

\* return JSONResponse(content={"results": results})
HookRespond ==
    /\ hook_pc = "loop"
    /\ hook_i > Len(hook_request.toolWithToolCallList)
    /\ hook_response' = [status |-> 200, body |-> "results"]
    /\ hook_pc' = "responded"
    /\ UNCHANGED <<vapi_webhook_secret, hook_request, hook_i, hook_results, dbvars>>
    /\ UNCHANGED <<enginevars, toolvars>>

\* The response has been sent: the endpoint waits for the next request.
HookDone ==
    /\ hook_pc \in {"responded", "rejected"}
    /\ hook_request' = NoHookRequest
    /\ hook_pc' = "idle"
    /\ hook_i' = 0
    /\ hook_results' = <<>>
    /\ hook_response' = NoResponse
    /\ UNCHANGED <<vapi_webhook_secret, dbvars>>
    /\ UNCHANGED <<enginevars, toolvars>>

InitHook ==
    /\ _RULES = InitRules
    /\ _GREEN_RESULT = InitGreenResult
    /\ pc = [p \in Callers |-> "idle"]
    /\ symptoms = [p \in Callers |-> NoArg]
    /\ idx = [p \in Callers |-> 0]
    /\ matched_yellow = [p \in Callers |-> 0]
    /\ result = [p \in Callers |-> NoResult]
    /\ error = [p \in Callers |-> "None"]
    /\ returned = [p \in Callers |-> EmptyDict]
    /\ tested = [p \in Callers |-> [i \in 1..Len(InitRules) |-> 0]]
    /\ doctor_phone_number = DoctorNumber
    /\ ToolIdle
    /\ supabase_configured \in BOOLEAN
    /\ users = [ph \in Phones |-> NoUser]
    /\ calls = <<>>
    /\ emergency_logs = <<>>
    /\ last = NoOperation
    /\ vapi_webhook_secret \in SecretSettings
    /\ hook_request = NoHookRequest
    /\ hook_pc = "idle"
    /\ hook_i = 0
    /\ hook_results = <<>>
    /\ hook_response = NoResponse

HookNext ==
    \/ HookReceive
    \/ ConsentStep
    \/ HookRespond
    \/ HookDone

SpecHook == InitHook /\ [][HookNext]_vars

\* The request being handled carries the configured secret.
HeaderMatches ==
    /\ hook_request.header.present
    /\ hook_request.header.value = vapi_webhook_secret

\* The request being handled was answered 401 and nothing of it was
\* processed.
Rejected401 ==
    /\ hook_pc = "rejected"
    /\ hook_response.status = 401
    /\ hook_results = <<>>

AtConsentAnswer ==
    /\ hook_pc = "loop"
    /\ hook_i <= Len(hook_request.toolWithToolCallList)
    /\ hook_request.toolWithToolCallList[hook_i].name = "record_consent"
    /\ DigitText(hook_request.toolWithToolCallList[hook_i].parameters) \in {"1", "2"}

\* ------------------------------------------------------------------------
\* C29. A database failure while recording consent does not drop the
\* call: for a record_consent entry with digit '1' or '2' the handler
\* either writes the consent and returns the acknowledgement, or, when the
\* write fails, writes nothing and returns the acknowledgement followed by
\* the not-recorded note; in both cases the result carries the entry's
\* toolCallId and the loop goes on, so that the response has one result
\* per entry.  An entry with another digit causes no database write.
\* ------------------------------------------------------------------------
ConsentFailureKeepsCall ==
    /\ [][AtConsentAnswer =>
              LET parameters == hook_request.toolWithToolCallList[hook_i].parameters
                  digit == DigitText(parameters)
                  ack == IF digit = "1"
                         THEN "Aapki sehmati darj kar li gayi hai. Dhanyavaad. Ab hum aapki madad ke liye taiyaar hain."
                         ELSE "Aapne mana kar diya. Hum call record nahi karenge. Aap phir bhi sahayta le sakti hain."
              IN /\ hook_pc' = "loop"
                 /\ hook_i' = hook_i + 1
                 /\ Len(hook_results') = hook_i
                 /\ hook_results'[hook_i].toolCallId = ToolCallId(hook_i)
                 /\ \/ /\ last'.outcome = "none"
                        /\ users' = [users EXCEPT ![ConsentPhone(parameters)] =
                                         UserRow(digit = "1")]
                        /\ hook_results'[hook_i].result = <<ack>>
                    \/ /\ last'.outcome = "raised"
                        /\ users' = users
                        /\ hook_results'[hook_i].result =
                               <<ack, " (Record nahi hua, kripya baad mein try karein.)">>]_vars
    /\ [][(hook_pc = "loop" /\ ~AtConsentAnswer) => dbvars' = dbvars]_vars
    /\ [](hook_pc = "responded" /\ hook_request.type = "tool-calls" =>
             /\ hook_response.status = 200
             /\ Len(hook_results) = Len(hook_request.toolWithToolCallList)
             /\ \A i \in 1..Len(hook_results) : hook_results[i].toolCallId = ToolCallId(i))

\* With a working database the write of the first consent failed, the
\* second entry was recorded, and both results were returned.
ConsentFailedThenRecordedReached ==
    /\ supabase_configured
    /\ hook_pc = "responded"
    /\ Len(hook_results) = 2
    /\ Len(hook_results[1].result) = 2
    /\ Len(hook_results[2].result) = 1
    /\ DigitText(hook_request.toolWithToolCallList[1].parameters) = "2"
    /\ DigitText(hook_request.toolWithToolCallList[2].parameters) = "1"
    /\ users[CallerPhone] = UserRow(TRUE)

====
